---- MODULE Spec2Model ----
(***************************************************************************)
(* A model of the discovery and registration pipeline of the robo-cord     *)
(* framework: the naming conventions (utils/conventions.ts), the           *)
(* DiscoveryService, the DiscordService and the BuiltinInteractionHandler. *)
(*                                                                         *)
(* Strings are sequences of one-character strings, so that suffix tests    *)
(* and case conversions are computed character by character as the code    *)
(* computes them.                                                          *)
(***************************************************************************)
EXTENDS Integers, Sequences, FiniteSets, TLC

VARIABLES
    scan,              \* the last discover*() call: kind, directory read, result, logs
    pc,                \* position of the running connect() call, "idle" when none runs
    connects,          \* number of connect() calls started so far
    found,             \* locals of discoverAndRegister: directories read, commands, handlers
    listeners,         \* the client's listeners, in subscription order
    commandInstances,  \* DiscordService.commandInstances: Undefined, or the Map's entries
    pushCalls,         \* commands.set() calls made by the last registerCommands
    loggedIn,          \* whether login() has succeeded
    connectResult,     \* outcome of the last finished connect(): "none", "ok", "threw"
    logs,              \* what the last step logged
    routed,            \* what each interactionCreate listener did with the last interaction
    dispatched,        \* the last emission: listeners invoked, error escaped to the client
    crashed,           \* whether an error escaped a listener and ended the process
    config,            \* the validated configuration the service was built with
    configCall,        \* the last createConfig() call: environment, arguments, outcome
    convCall,          \* the last naming conversion: class, input string, results
    fired,             \* the once-handlers whose execute has run: class and connect() call
    loggerService,     \* a LoggerService: its Map of child loggers, child() calls made
    loggerCalls,       \* the getLogger calls since the last clearLoggers, the last call
    mergeCall          \* the last deepMerge() call: target, source, result

vars == <<scan, pc, connects, found, listeners, commandInstances, pushCalls,
          loggedIn, connectResult, logs, routed, dispatched, crashed, config,
          configCall, convCall, fired, loggerService, loggerCalls, mergeCall>>

\* the LoggerService and the deepMerge call, which no other component touches
utilityVars == <<loggerService, loggerCalls, mergeCall>>

\* the fields of the DiscordService and what its listeners did
serviceVars == <<pc, connects, found, listeners, commandInstances, pushCalls,
                 loggedIn, connectResult, logs, routed, dispatched, crashed, config,
                 fired>>

\* what a DiscoveryService call leaves alone
discordVars == <<pc, connects, found, listeners, commandInstances, pushCalls,
                 loggedIn, connectResult, logs, routed, dispatched, crashed, config,
                 configCall, convCall, fired, utilityVars>>

----------------------------------------------------------------------------
(* Characters and strings *)

UpperChars == <<"A","B","C","D","E","F","G","H","I","J","K","L","M",
                "N","O","P","Q","R","S","T","U","V","W","X","Y","Z">>
LowerChars == <<"a","b","c","d","e","f","g","h","i","j","k","l","m",
                "n","o","p","q","r","s","t","u","v","w","x","y","z">>
DigitChars == <<"0","1","2","3","4","5","6","7","8","9">>

Range(s) == { s[i] : i \in DOMAIN s }

IsUpper(c) == c \in Range(UpperChars)
IsLower(c) == c \in Range(LowerChars)
IsDigit(c) == c \in Range(DigitChars)

\* String.prototype.toLowerCase on one character
toLowerChar(c) ==
    IF IsUpper(c) THEN LowerChars[CHOOSE i \in DOMAIN UpperChars : UpperChars[i] = c] ELSE c

\* String.prototype.toLowerCase
toLowerCase(s) == [i \in DOMAIN s |-> toLowerChar(s[i])]

\* String.prototype.endsWith
endsWith(s, suffix) ==
    /\ Len(s) >= Len(suffix)
    /\ SubSeq(s, Len(s) - Len(suffix) + 1, Len(s)) = suffix

\* className.slice(0, -n)
sliceOff(s, n) == IF n >= Len(s) THEN <<>> ELSE SubSeq(s, 1, Len(s) - n)

sCommand == <<"C","o","m","m","a","n","d">>
sEvent   == <<"E","v","e","n","t">>
sJob     == <<"J","o","b">>
sEntity  == <<"E","n","t","i","t","y">>
sDotTs   == <<".","t","s">>
sDotJs   == <<".","j","s">>

\* the value a throwing conversion yields in the model: no string, as no string
\* holds an element longer than a character
Throws == <<"Throws">>

----------------------------------------------------------------------------
(* utils/conventions.ts *)

\* .replace(/([a-z0-9])([A-Z])/g, '$1-$2'): scan left to right from position i; a
\* match consumes both characters
RECURSIVE replaceLowerUpper(_, _)
replaceLowerUpper(s, i) ==
    IF i > Len(s) THEN <<>>
    ELSE IF /\ i + 1 <= Len(s)
            /\ (IsLower(s[i]) \/ IsDigit(s[i]))
            /\ IsUpper(s[i + 1])
         THEN <<s[i], "-", s[i + 1]>> \o replaceLowerUpper(s, i + 2)
         ELSE <<s[i]>> \o replaceLowerUpper(s, i + 1)

\* .replace(/([A-Z])([A-Z][a-z])/g, '$1-$2'): a match consumes three characters
RECURSIVE replaceAcronym(_, _)
replaceAcronym(s, i) ==
    IF i > Len(s) THEN <<>>
    ELSE IF /\ i + 2 <= Len(s)
            /\ IsUpper(s[i])
            /\ IsUpper(s[i + 1])
            /\ IsLower(s[i + 2])
         THEN <<s[i], "-", s[i + 1], s[i + 2]>> \o replaceAcronym(s, i + 3)
         ELSE <<s[i]>> \o replaceAcronym(s, i + 1)

\* pascalToKebab without its second replacement, the one that splits an acronym
\* from the word after it
pascalToKebabNoAcronym(str) == toLowerCase(replaceLowerUpper(str, 1))

pascalToKebab(str) == toLowerCase(replaceAcronym(replaceLowerUpper(str, 1), 1))

pascalToCamel(str) ==
    IF str = <<>> THEN <<>> ELSE <<toLowerChar(str[1])>> \o SubSeq(str, 2, Len(str))

\* commandNameToId without its test for the bare suffix
commandNameToIdAnyRemainder(className) ==
    IF ~endsWith(className, sCommand) THEN Throws
    ELSE pascalToKebab(sliceOff(className, Len(sCommand)))

commandNameToId(className) ==
    IF ~endsWith(className, sCommand) THEN Throws
    ELSE IF Len(sliceOff(className, Len(sCommand))) = 0 THEN Throws
    ELSE pascalToKebab(sliceOff(className, Len(sCommand)))

eventNameToDiscordEvent(className) ==
    IF ~endsWith(className, sEvent) THEN Throws
    ELSE IF Len(sliceOff(className, Len(sEvent))) = 0 THEN Throws
    ELSE pascalToCamel(sliceOff(className, Len(sEvent)))

jobNameToId(className) ==
    IF ~endsWith(className, sJob) THEN Throws
    ELSE IF Len(sliceOff(className, Len(sJob))) = 0 THEN Throws
    ELSE pascalToKebab(sliceOff(className, Len(sJob)))

entityNameToTableName(className) ==
    IF ~endsWith(className, sEntity) THEN Throws
    ELSE IF Len(sliceOff(className, Len(sEntity))) = 0 THEN Throws
    ELSE sliceOff(className, Len(sEntity))

----------------------------------------------------------------------------
(* The values a module can export.  A "class" is a function with a         *)
(* prototype, an "arrow" is a function without one, an "object" is neither.*)
(* parent is the class named in the extends clause, "Object" when there is *)
(* none.  explicit is the declared name (commands) or event (handlers).    *)

\* the value of an optional string property that is not set
NoName == <<"NoName">>

\* the value of the optional commandInstances field before a Map is created; a
\* created Map is [defined |-> TRUE, entries |-> its entries in insertion order]
Undefined == [defined |-> FALSE, entries |-> <<>>]

Export(k, n, p, ct, ex, bt, on) ==
    [kind |-> k, name |-> n, parent |-> p, ctorThrows |-> ct, explicit |-> ex,
     buildThrows |-> bt, once |-> on]

sPing == <<"p","i","n","g">>
sInteractionCreate == <<"i","n","t","e","r","a","c","t","i","o","n","C","r","e","a","t","e">>

Exports ==
    [ BaseSlashCommand |-> Export("class", <<"B","a","s","e","S","l","a","s","h","C","o","m","m","a","n","d">>, "Object", FALSE, NoName, TRUE, FALSE),
      BaseEventHandler |-> Export("class", <<"B","a","s","e","E","v","e","n","t","H","a","n","d","l","e","r">>, "Object", FALSE, NoName, FALSE, FALSE),
      PingCommand      |-> Export("class", <<"P","i","n","g","C","o","m","m","a","n","d">>, "BaseSlashCommand", FALSE, NoName, FALSE, FALSE),
      ModerationBase   |-> Export("class", <<"M","o","d","e","r","a","t","i","o","n","B","a","s","e">>, "BaseSlashCommand", FALSE, NoName, FALSE, FALSE),
      UserInfoCommand  |-> Export("class", <<"U","s","e","r","I","n","f","o","C","o","m","m","a","n","d">>, "ModerationBase", FALSE, NoName, FALSE, FALSE),
      CustomCommand    |-> Export("class", <<"C","u","s","t","o","m","C","o","m","m","a","n","d">>, "BaseSlashCommand", FALSE, sPing, FALSE, FALSE),
      Command          |-> Export("class", sCommand, "BaseSlashCommand", FALSE, NoName, FALSE, FALSE),
      BrokenCommand    |-> Export("class", <<"B","r","o","k","e","n","C","o","m","m","a","n","d">>, "BaseSlashCommand", TRUE, NoName, FALSE, FALSE),
      DraftCommand     |-> Export("class", <<"D","r","a","f","t","C","o","m","m","a","n","d">>, "BaseSlashCommand", FALSE, NoName, TRUE, FALSE),
      FooCommand       |-> Export("class", <<"F","o","o","C","o","m","m","a","n","d">>, "Object", FALSE, NoName, FALSE, FALSE),
      helpCommand      |-> Export("arrow", <<"h","e","l","p","C","o","m","m","a","n","d">>, "Object", FALSE, NoName, FALSE, FALSE),
      TestCommand      |-> Export("object", <<"T","e","s","t","C","o","m","m","a","n","d">>, "Object", FALSE, NoName, FALSE, FALSE),
      ReadyEvent       |-> Export("class", <<"R","e","a","d","y","E","v","e","n","t">>, "BaseEventHandler", FALSE, NoName, FALSE, TRUE),
      MessageCreateEvent |-> Export("class", <<"M","e","s","s","a","g","e","C","r","e","a","t","e","E","v","e","n","t">>, "BaseEventHandler", FALSE, NoName, FALSE, FALSE),
      InteractionCreateEvent |-> Export("class", <<"I","n","t","e","r","a","c","t","i","o","n","C","r","e","a","t","e","E","v","e","n","t">>, "BaseEventHandler", FALSE, NoName, FALSE, FALSE),
      RouterEvent      |-> Export("class", <<"R","o","u","t","e","r","E","v","e","n","t">>, "BaseEventHandler", FALSE, sInteractionCreate, FALSE, FALSE),
      Event            |-> Export("class", sEvent, "BaseEventHandler", FALSE, NoName, FALSE, FALSE),
      BrokenEvent      |-> Export("class", <<"B","r","o","k","e","n","E","v","e","n","t">>, "BaseEventHandler", TRUE, NoName, FALSE, FALSE),
      FakeEvent        |-> Export("class", <<"F","a","k","e","E","v","e","n","t">>, "Object", FALSE, NoName, FALSE, FALSE),
      MixedEvent       |-> Export("class", <<"M","i","x","e","d","E","v","e","n","t">>, "BaseSlashCommand", FALSE, NoName, FALSE, FALSE),
      UserEntity       |-> Export("class", <<"U","s","e","r","E","n","t","i","t","y">>, "Object", FALSE, NoName, FALSE, FALSE),
      WelcomeJob       |-> Export("class", <<"W","e","l","c","o","m","e","J","o","b">>, "Object", FALSE, NoName, FALSE, FALSE) ]

ExportIds == DOMAIN Exports

\* a directory entry: its name, whether it is a regular file, whether import() of it
\* throws, and the values of the module it exports, in enumeration order
FileOf(n, f, l, e) == [name |-> n, isFile |-> f, loadFails |-> l, exports |-> e]

Files ==
    [ fPing      |-> FileOf(<<"P","i","n","g","C","o","m","m","a","n","d">> \o sDotTs, TRUE, FALSE, <<"PingCommand">>),
      fUserInfo  |-> FileOf(<<"U","s","e","r","I","n","f","o","C","o","m","m","a","n","d">> \o sDotJs, TRUE, FALSE,
                            <<"ModerationBase", "UserInfoCommand", "TestCommand">>),
      fCustom    |-> FileOf(<<"C","u","s","t","o","m","C","o","m","m","a","n","d">> \o sDotTs, TRUE, FALSE, <<"CustomCommand", "BrokenCommand">>),
      fLegacy    |-> FileOf(<<"L","e","g","a","c","y","C","o","m","m","a","n","d">> \o sDotTs, TRUE, FALSE,
                            <<"Command", "DraftCommand", "FooCommand", "helpCommand",
                              "BaseSlashCommand">>),
      fBadCmd    |-> FileOf(<<"B","a","d","C","o","m","m","a","n","d">> \o sDotTs, TRUE, TRUE, <<"PingCommand">>),
      fAdminDir  |-> FileOf(<<"A","d","m","i","n","C","o","m","m","a","n","d">> \o sDotTs, FALSE, FALSE, <<"PingCommand">>),
      fReady     |-> FileOf(<<"R","e","a","d","y","E","v","e","n","t">> \o sDotTs, TRUE, FALSE, <<"ReadyEvent">>),
      fMessage   |-> FileOf(<<"M","e","s","s","a","g","e","C","r","e","a","t","e","E","v","e","n","t">> \o sDotTs, TRUE, FALSE, <<"MessageCreateEvent", "FakeEvent">>),
      fInteraction |-> FileOf(<<"I","n","t","e","r","a","c","t","i","o","n","C","r","e","a","t","e","E","v","e","n","t">> \o sDotTs, TRUE, FALSE,
                            <<"InteractionCreateEvent", "RouterEvent">>),
      fOddEvent  |-> FileOf(<<"O","d","d","E","v","e","n","t">> \o sDotJs, TRUE, FALSE,
                            <<"Event", "BrokenEvent", "MixedEvent", "BaseEventHandler">>),
      fBadEvent  |-> FileOf(<<"B","a","d","E","v","e","n","t">> \o sDotTs, TRUE, TRUE, <<"ReadyEvent">>),
      fUserEntity |-> FileOf(<<"U","s","e","r","E","n","t","i","t","y">> \o sDotTs, TRUE, FALSE, <<"UserEntity", "FooCommand">>),
      fWelcomeJob |-> FileOf(<<"W","e","l","c","o","m","e","J","o","b">> \o sDotJs, TRUE, FALSE, <<"WelcomeJob", "helpCommand">>),
      fReadme    |-> FileOf(<<"R","E","A","D","M","E",".","m","d">>, TRUE, FALSE, <<"PingCommand">>) ]

FileIds == DOMAIN Files

----------------------------------------------------------------------------
(* services/DiscoveryService.ts *)

Kinds == {"Entity", "Command", "Job", "Event"}

\* the suffix a kind's file pattern and class names end with
Suffix(kind) ==
    CASE kind = "Entity"  -> sEntity
      [] kind = "Command" -> sCommand
      [] kind = "Job"     -> sJob
      [] kind = "Event"   -> sEvent

\* entityFileRegex, commandFileRegex, jobFileRegex, eventFileRegex: /<Suffix>\.(ts|js)$/
filePatternTest(kind, fileName) ==
    \/ endsWith(fileName, Suffix(kind) \o sDotTs)
    \/ endsWith(fileName, Suffix(kind) \o sDotJs)

LogEntry(level, msg, subject) == [level |-> level, msg |-> msg, subject |-> subject]

\* getFilesInDirectory without its try/catch: the readdirSync error leaves the method
getFilesInDirectoryUncaught(dir, kind) ==
    IF ~dir.readable
    THEN [threw |-> TRUE, files |-> <<>>, logs |-> {}]
    ELSE [threw |-> FALSE,
          files |-> SelectSeq(SelectSeq(dir.entries, LAMBDA f : Files[f].isFile),
                              LAMBDA f : filePatternTest(kind, Files[f].name)),
          logs  |-> {}]

\* getFilesInDirectory: a directory is [readable, entries]; readdirSync throws on an
\* unreadable one, which is caught, logged and answered with the empty list.  threw
\* tells whether an exception leaves the method.
getFilesInDirectory(dir, kind) ==
    IF ~dir.readable
    THEN [threw |-> FALSE, files |-> <<>>,
          logs |-> {LogEntry("error", "Error reading directory", kind)}]
    ELSE [threw |-> FALSE,
          files |-> SelectSeq(SelectSeq(dir.entries, LAMBDA f : Files[f].isFile),
                              LAMBDA f : filePatternTest(kind, Files[f].name)),
          logs  |-> {}]

\* typeof exportedItem === 'function'
IsFunction(e) == Exports[e].kind \in {"class", "arrow"}

\* exportedItem.prototype is truthy
HasPrototype(e) == Exports[e].kind = "class"

\* Object.getPrototypeOf of the prototype object of class c; the prototype object of
\* a class is identified by the class, Object.prototype by "Object", null by "Null"
getPrototypeOf(proto) ==
    IF proto = "Object" THEN "Null" ELSE Exports[proto].parent

\* the loop of isValidCommand / isValidEvent: currentProto.constructor === base
RECURSIVE walkPrototypeChain(_, _)
walkPrototypeChain(currentProto, base) ==
    IF currentProto = "Null" THEN FALSE
    ELSE IF currentProto = base THEN TRUE
    ELSE walkPrototypeChain(getPrototypeOf(currentProto), base)

isValidEntity(e) == IsFunction(e) /\ HasPrototype(e) /\ endsWith(Exports[e].name, sEntity)

isValidJob(e) == IsFunction(e) /\ HasPrototype(e) /\ endsWith(Exports[e].name, sJob)

\* isValidCommand with the name check only, as isValidEntity and isValidJob have it
isValidCommandNameOnly(e) ==
    IsFunction(e) /\ HasPrototype(e) /\ endsWith(Exports[e].name, sCommand)

isValidCommand(e) ==
    IF ~IsFunction(e) \/ ~HasPrototype(e) THEN FALSE
    ELSE IF ~endsWith(Exports[e].name, sCommand) THEN FALSE
    ELSE walkPrototypeChain(e, "BaseSlashCommand")

isValidEvent(e) ==
    IF ~IsFunction(e) \/ ~HasPrototype(e) THEN FALSE
    ELSE IF ~endsWith(Exports[e].name, sEvent) THEN FALSE
    ELSE walkPrototypeChain(e, "BaseEventHandler")

isValid(kind, e) ==
    CASE kind = "Entity"  -> isValidEntity(e)
      [] kind = "Command" -> isValidCommand(e)
      [] kind = "Job"     -> isValidJob(e)
      [] kind = "Event"   -> isValidEvent(e)

\* the loop body without its try/catch: a failing import leaves the loop
loadFileUncaught(kind, f) ==
    IF Files[f].loadFails
    THEN [threw |-> TRUE, classes |-> <<>>, logs |-> {}]
    ELSE [threw |-> FALSE,
          classes |-> SelectSeq(Files[f].exports, LAMBDA e : isValid(kind, e)),
          logs    |-> {}]

\* the body of the for loop for one file: import() it, keep the valid exports;
\* a failing import is caught and logged as a warning
loadFile(kind, f) ==
    IF Files[f].loadFails
    THEN [threw |-> FALSE, classes |-> <<>>,
          logs |-> {LogEntry("warn", "Failed to load file", f)}]
    ELSE [threw |-> FALSE,
          classes |-> SelectSeq(Files[f].exports, LAMBDA e : isValid(kind, e)),
          logs    |-> {}]

\* the for loop over the files, from file i on, with what the earlier iterations
\* collected; an exception leaving one iteration ends the loop.  (A value is bound
\* with x \in {e} where it is used more than once, so that it is computed once.)
RECURSIVE loadFiles(_, _, _, _)
loadFiles(kind, files, i, acc) ==
    IF i > Len(files) \/ acc.threw THEN acc
    ELSE CHOOSE r \in
            { loadFiles(kind, files, i + 1,
                        [threw   |-> one.threw,
                         classes |-> prev.classes \o one.classes,
                         logs    |-> prev.logs \cup one.logs]) :
                one \in {loadFile(kind, files[i])}, prev \in {acc} } : TRUE

\* discoverEntities / discoverCommands / discoverJobs / discoverEvents
discover(kind, dir) ==
    CHOOSE r \in
        { IF listing.threw
          THEN [outcome |-> "threw", classes |-> <<>>, logs |-> listing.logs]
          ELSE CHOOSE q \in
                  { [outcome |-> IF loaded.threw THEN "threw" ELSE "returned",
                     classes |-> IF loaded.threw THEN <<>> ELSE loaded.classes,
                     logs    |-> listing.logs \cup loaded.logs] :
                      loaded \in {loadFiles(kind, listing.files, 1,
                                            [threw |-> FALSE, classes |-> <<>>,
                                             logs |-> {}])} } : TRUE :
            listing \in {getFilesInDirectory(dir, kind)} } : TRUE

----------------------------------------------------------------------------
(* Directories a scan can meet *)

MaxFiles == 3

\* sequences of distinct entries of length n drawn from S
RECURSIVE Listings(_, _)
Listings(S, n) ==
    IF n = 0 THEN {<<>>}
    ELSE LET shorter == Listings(S, n - 1)
         IN  shorter \cup
             { Append(l, f) : l \in { x \in shorter : Len(x) = n - 1 },
                              f \in S }

DistinctListings(S, n) ==
    { l \in Listings(S, n) : \A i, j \in DOMAIN l : i # j => l[i] # l[j] }

Unreadable == [readable |-> FALSE, entries |-> <<>>]

Directories ==
    { [readable |-> TRUE, entries |-> l] : l \in DistinctListings(FileIds, MaxFiles) }
        \cup {Unreadable}

NoScan == [kind |-> "None", dir |-> [readable |-> TRUE, entries |-> <<>>],
           outcome |-> "none", classes |-> <<>>, logs |-> {}]

----------------------------------------------------------------------------
(* base/BaseSlashCommand.ts and base/BaseEventHandler.ts *)

\* readonly description: each class of the model declares 'Test ' followed by
\* its own name
description(c) == <<"T","e","s","t"," ">> \o Exports[c].name

\* the getter without its explicit name: the derived name always
commandNameDerivedOnly(c) == commandNameToId(Exports[c].name)

\* get commandName(): this.name ?? commandNameToId(this.constructor.name)
commandName(c) ==
    IF Exports[c].explicit # NoName THEN Exports[c].explicit
    ELSE commandNameToId(Exports[c].name)

\* get eventName(): this.event ?? eventNameToDiscordEvent(this.constructor.name)
eventName(c) ==
    IF Exports[c].explicit # NoName THEN Exports[c].explicit
    ELSE eventNameToDiscordEvent(Exports[c].name)

\* buildCommand(): the builder carries the command name and the fields of the
\* instance (its class stands for them); it throws when the name derivation throws
\* or when the builder rejects a field
buildCommand(c) ==
    IF commandName(c) = Throws \/ Exports[c].buildThrows
    THEN [threw |-> TRUE, name |-> Throws, description |-> Throws, of |-> c]
    ELSE [threw |-> FALSE, name |-> commandName(c), description |-> description(c),
          of |-> c]

\* SlashCommandBuilder.toJSON()
toJSON(built) == [name |-> built.name, description |-> built.description, of |-> built.of]

----------------------------------------------------------------------------
(* services/DiscordService.ts: registration *)

sError        == <<"e","r","r","o","r">>
sShardError   == <<"s","h","a","r","d","E","r","r","o","r">>
sRateLimit    == <<"r","a","t","e","L","i","m","i","t">>
sWarn         == <<"w","a","r","n">>
sDisconnect   == <<"d","i","s","c","o","n","n","e","c","t">>
sReconnecting == <<"r","e","c","o","n","n","e","c","t","i","n","g">>
sReady        == <<"r","e","a","d","y">>
sMessageCreate == <<"m","e","s","s","a","g","e","C","r","e","a","t","e">>

Listener(event, kind, cls, once, conn) ==
    [event |-> event, kind |-> kind, cls |-> cls, once |-> once, conn |-> conn]

\* setupClientErrorHandlers, which first calls setupBuiltinInteractionHandler: the
\* listeners the n-th connect() subscribes
setupClientErrorHandlers(n) ==
    << Listener(sInteractionCreate, "builtin", "BuiltinInteractionHandler", FALSE, n),
       Listener(sError, "client", "logger", FALSE, n),
       Listener(sShardError, "client", "logger", FALSE, n),
       Listener(sRateLimit, "client", "logger", FALSE, n),
       Listener(sWarn, "client", "logger", FALSE, n),
       Listener(sDisconnect, "client", "logger", FALSE, n),
       Listener(sReconnecting, "client", "logger", FALSE, n) >>

\* a set() that adds an entry also when the key is there already
mapSetAppend(map, key, value) ==
    [map EXCEPT !.entries = Append(map.entries, [key |-> key, value |-> value])]

\* Map.prototype.set: an existing key keeps its place and takes the new value
mapSet(map, key, value) ==
    IF \E i \in DOMAIN map.entries : map.entries[i].key = key
    THEN [map EXCEPT !.entries =
            [i \in DOMAIN map.entries |->
                IF map.entries[i].key = key THEN [key |-> key, value |-> value]
                                            ELSE map.entries[i]]]
    ELSE [map EXCEPT !.entries = Append(map.entries, [key |-> key, value |-> value])]

\* Map.prototype.get(key) !== undefined
mapHas(map, key) == \E i \in DOMAIN map.entries : map.entries[i].key = key

\* Map.prototype.get
mapGet(map, key) ==
    map.entries[CHOOSE i \in DOMAIN map.entries : map.entries[i].key = key].value

\* new Map()
NewMap == [defined |-> TRUE, entries |-> <<>>]

\* the loop body of registerCommands without its try/catch: a throwing constructor
\* or buildCommand leaves the loop
registerCommandUncaught(c, table) ==
    IF Exports[c].ctorThrows \/ buildCommand(c).threw
    THEN [threw |-> TRUE, table |-> table, logs |-> {}]
    ELSE [threw |-> FALSE,
          table |-> mapSet(IF ~table.defined THEN NewMap ELSE table,
                           buildCommand(c).name, c),
          logs |-> {}]

\* the body of the for loop of registerCommands for one class, with its try/catch:
\* instantiate, build, store under the built name; a throw is logged
registerCommand(c, table) ==
    IF Exports[c].ctorThrows \/ buildCommand(c).threw
    THEN [threw |-> FALSE, table |-> table,
          logs |-> {LogEntry("error", "Failed to prepare command for registration", c)}]
    ELSE [threw |-> FALSE,
          table |-> mapSet(IF ~table.defined THEN NewMap ELSE table,
                           buildCommand(c).name, c),
          logs |-> {}]

\* the for loop of registerCommands, from class i on, with the table and the logs
\* the earlier iterations left
RECURSIVE registerCommandsLoop(_, _, _)
registerCommandsLoop(commands, i, acc) ==
    IF i > Len(commands) \/ acc.threw THEN acc
    ELSE CHOOSE r \in
            { registerCommandsLoop(commands, i + 1,
                                   [threw |-> one.threw, table |-> one.table,
                                    logs  |-> prev.logs \cup one.logs]) :
                one \in {registerCommand(commands[i], acc.table)}, prev \in {acc} } : TRUE

\* what the external client can do on a push: guilds.fetch() may reject,
\* client.application may be absent, commands.set() may reject
Externals ==
    [fetchFails : BOOLEAN, application : BOOLEAN, setFails : BOOLEAN]

\* Array.from(commandInstances.values()).map(c => c.buildCommand().toJSON())
commandData(table) ==
    [i \in DOMAIN table.entries |-> toJSON(buildCommand(table.entries[i].value))]

\* registerSlashCommandsWithDiscord without its early return: the batch is pushed
\* also when it is empty
registerSlashCommandsAlways(table, guildMode, ext) ==
    IF ext.setFails
    THEN [threw |-> TRUE, calls |-> <<commandData(table)>>,
          logs |-> {LogEntry("error", "Failed to register commands with Discord API", "")}]
    ELSE [threw |-> FALSE, calls |-> <<commandData(table)>>,
          logs |-> {LogEntry("info", "Successfully registered commands globally", "")}]

\* registerSlashCommandsWithDiscord: calls is the sequence of commands.set() calls
\* made
registerSlashCommandsWithDiscord(table, guildMode, ext) ==
    IF ~table.defined \/ Len(table.entries) = 0
    THEN [threw |-> FALSE, calls |-> <<>>,
          logs |-> {LogEntry("debug", "No commands to register with Discord API", "")}]
    ELSE IF guildMode
    THEN IF ext.fetchFails
         THEN [threw |-> TRUE, calls |-> <<>>,
               logs |-> {LogEntry("error", "Failed to register commands with Discord API", "")}]
         ELSE IF ext.setFails
         THEN [threw |-> TRUE, calls |-> <<commandData(table)>>,
               logs |-> {LogEntry("error", "Failed to register commands with Discord API", "")}]
         ELSE [threw |-> FALSE, calls |-> <<commandData(table)>>,
               logs |-> {LogEntry("info", "Successfully registered commands to development guild", "")}]
    ELSE IF ~ext.application
         THEN [threw |-> FALSE, calls |-> <<>>,
               logs |-> {LogEntry("info", "Successfully registered commands globally", "")}]
         ELSE IF ext.setFails
         THEN [threw |-> TRUE, calls |-> <<commandData(table)>>,
               logs |-> {LogEntry("error", "Failed to register commands with Discord API", "")}]
         ELSE [threw |-> FALSE, calls |-> <<commandData(table)>>,
               logs |-> {LogEntry("info", "Successfully registered commands globally", "")}]

\* registerCommands: the loop, then the push
registerCommands(commands, table, guildMode, ext) ==
    CHOOSE r \in
        { IF loop.threw
          THEN [threw |-> TRUE, table |-> loop.table, calls |-> <<>>,
                logs |-> loop.logs]
          ELSE CHOOSE q \in
                  { [threw |-> push.threw, table |-> loop.table, calls |-> push.calls,
                     logs |-> loop.logs \cup push.logs] :
                      push \in {registerSlashCommandsWithDiscord(loop.table, guildMode,
                                                                 ext)} } : TRUE :
            loop \in {registerCommandsLoop(commands, 1,
                                           [threw |-> FALSE, table |-> table,
                                            logs |-> {}])} } : TRUE

\* the loop body of registerEventHandlers without the test for the reserved name
registerEventHandlerNoReserved(c, n) ==
    IF Exports[c].ctorThrows \/ eventName(c) = Throws
    THEN [threw |-> FALSE, added |-> <<>>,
          logs |-> {LogEntry("error", "Failed to register event handler", c)}]
    ELSE [threw |-> FALSE,
          added |-> <<Listener(eventName(c), "handler", c, Exports[c].once, n)>>,
          logs |-> {}]

\* the loop body of registerEventHandlers subscribing with client.on whatever the
\* handler's once flag
registerEventHandlerAlwaysOn(c, n) ==
    IF Exports[c].ctorThrows \/ eventName(c) = Throws
    THEN [threw |-> FALSE, added |-> <<>>,
          logs |-> {LogEntry("error", "Failed to register event handler", c)}]
    ELSE IF eventName(c) = sInteractionCreate
    THEN [threw |-> FALSE, added |-> <<>>,
          logs |-> {LogEntry("warn", "Skipping user-defined interactionCreate handler", c)}]
    ELSE [threw |-> FALSE,
          added |-> <<Listener(eventName(c), "handler", c, FALSE, n)>>,
          logs |-> {}]

\* the body of the for loop of registerEventHandlers for one class, with its
\* try/catch: added is what it subscribes with client.on / client.once
registerEventHandler(c, n) ==
    IF Exports[c].ctorThrows \/ eventName(c) = Throws
    THEN [threw |-> FALSE, added |-> <<>>,
          logs |-> {LogEntry("error", "Failed to register event handler", c)}]
    ELSE IF eventName(c) = sInteractionCreate
    THEN [threw |-> FALSE, added |-> <<>>,
          logs |-> {LogEntry("warn", "Skipping user-defined interactionCreate handler", c)}]
    ELSE [threw |-> FALSE,
          added |-> <<Listener(eventName(c), "handler", c, Exports[c].once, n)>>,
          logs |-> {}]

\* the for loop of registerEventHandlers, from class i on, with what the earlier
\* iterations subscribed and logged
RECURSIVE registerEventHandlersLoop(_, _, _, _)
registerEventHandlersLoop(handlers, i, n, acc) ==
    IF i > Len(handlers) \/ acc.threw THEN acc
    ELSE CHOOSE r \in
            { registerEventHandlersLoop(handlers, i + 1, n,
                                        [threw |-> one.threw,
                                         added |-> prev.added \o one.added,
                                         logs  |-> prev.logs \cup one.logs]) :
                one \in {registerEventHandler(handlers[i], n)}, prev \in {acc} } : TRUE

\* registerEventHandlers for the n-th connect()
registerEventHandlers(handlers, n) ==
    registerEventHandlersLoop(handlers, 1, n,
                              [threw |-> FALSE, added |-> <<>>, logs |-> {}])

----------------------------------------------------------------------------
(* services/DiscordService.ts and BuiltinInteractionHandler: execution *)

sUnknownReply == "Unknown command. Please try again."
sErrorReply   == "An error occurred while executing this command."

\* what one routing of an interaction meets: whether the command's execute throws,
\* the reply state of the interaction when it does, and whether the response call
\* that is then made rejects
RouteInputs ==
    [execThrows : BOOLEAN, deferred : BOOLEAN, replied : BOOLEAN, channelFails : BOOLEAN]

Call(executed, execThrew, replies, lg, threw) ==
    [executed |-> executed, execThrew |-> execThrew, replies |-> replies, logs |-> lg,
     threw |-> threw]

Reply(method, content) == [method |-> method, content |-> content]

\* the unknown-command branch without its reply
unknownCommandSilent(name, inp) ==
    Call(<<>>, FALSE, <<>>, {LogEntry("warn", "Unknown command executed", name)}, FALSE)

\* executeSlashCommand when the table has no instance under the name: warn, then
\* await interaction.reply(...), outside any try block
unknownCommand(name, inp) ==
    Call(<<>>, FALSE, <<Reply("reply", sUnknownReply)>>,
         {LogEntry("warn", "Unknown command executed", name)}, inp.channelFails)

\* the catch block without its inner try/catch: a rejected response call leaves it
sendErrorResponseUnguarded(inp) ==
    [replies |-> << Reply(IF inp.deferred THEN "editReply"
                          ELSE IF ~inp.replied THEN "reply"
                          ELSE "followUp", sErrorReply) >>,
     logs    |-> {},
     threw   |-> inp.channelFails]

\* the catch block of executeSlashCommand after its error log: one response call,
\* chosen by the reply state of the interaction; its rejection is logged
sendErrorResponse(inp) ==
    [replies |-> << Reply(IF inp.deferred THEN "editReply"
                          ELSE IF ~inp.replied THEN "reply"
                          ELSE "followUp", sErrorReply) >>,
     logs    |-> IF inp.channelFails
                 THEN {LogEntry("error", "Failed to send error response to user", "")}
                 ELSE {},
     threw   |-> FALSE]

\* executeSlashCommand: executed lists the instances whose execute ran, replies the
\* response calls attempted, threw tells whether an exception leaves the method
executeSlashCommand(table, name, inp) ==
    IF ~table.defined
    THEN Call(<<>>, FALSE, <<>>,
              {LogEntry("error", "No command instances available for execution", "")},
              FALSE)
    ELSE IF ~mapHas(table, name)
    THEN unknownCommand(name, inp)
    ELSE IF ~inp.execThrows
    THEN Call(<<mapGet(table, name)>>, FALSE, <<>>,
              {LogEntry("debug", "Slash command executed successfully", name)},
              FALSE)
    ELSE Call(<<mapGet(table, name)>>, TRUE, sendErrorResponse(inp).replies,
              {LogEntry("error", "Slash command execution failed", name)}
                  \cup sendErrorResponse(inp).logs,
              sendErrorResponse(inp).threw)

InteractionTypes ==
    {"chatInput", "button", "selectMenu", "modalSubmit", "autocomplete", "other"}

\* the handle* methods of BuiltinInteractionHandler, without the try/catch of execute
handleInteraction(type, table, name, inp) ==
    CASE type = "chatInput" -> executeSlashCommand(table, name, inp)
      [] type \in {"button", "selectMenu"} ->
            IF ~inp.replied /\ ~inp.deferred
            THEN Call(<<>>, FALSE, <<Reply("deferUpdate", "")>>, {}, inp.channelFails)
            ELSE Call(<<>>, FALSE, <<>>, {}, FALSE)
      [] type = "modalSubmit" ->
            IF ~inp.replied /\ ~inp.deferred
            THEN IF inp.channelFails
                 THEN Call(<<>>, FALSE, <<Reply("deferReply", "")>>, {}, TRUE)
                 ELSE Call(<<>>, FALSE,
                           <<Reply("deferReply", ""),
                             Reply("editReply", "Modal submission received.")>>, {}, FALSE)
            ELSE Call(<<>>, FALSE, <<>>, {}, FALSE)
      [] type = "autocomplete" ->
            Call(<<>>, FALSE, <<Reply("respond", "")>>, {}, inp.channelFails)
      [] OTHER ->
            Call(<<>>, FALSE, <<>>,
                 {LogEntry("debug", "Received unknown interaction type", type)}, FALSE)

\* BuiltinInteractionHandler.execute: call is what the handle* method did, logs adds
\* the error log of the catch block, threw tells whether an exception leaves execute
builtinExecute(type, table, name, inp) ==
    CHOOSE x \in
        { [call  |-> r,
           logs  |-> r.logs \cup
                     (IF r.threw
                      THEN {LogEntry("error", "Built-in interaction handler failed", type)}
                      ELSE {}),
           threw |-> FALSE] : r \in {handleInteraction(type, table, name, inp)} } : TRUE

\* the interactionCreate listener of setupBuiltinInteractionHandler: an error of
\* execute is logged; threw tells whether the listener's promise rejects
interactionListener(type, table, name, inp) ==
    CHOOSE x \in
        { [call  |-> r.call,
           logs  |-> r.logs \cup
                     (IF r.threw
                      THEN {LogEntry("error",
                                     "Built-in interaction handler execution failed", type)}
                      ELSE {}),
           threw |-> FALSE] : r \in {builtinExecute(type, table, name, inp)} } : TRUE

\* the lookup table when a routing were to evict the instances
tableEvictedAfterRouting(table, routings) ==
    IF routings = 0 THEN table ELSE [table EXCEPT !.entries = <<>>]

\* this.commandInstances after the built-in handler ran for each interactionCreate
\* listener: BuiltinInteractionHandler passes the interaction on, executeSlashCommand
\* tests the field and calls get() on it, and neither assigns the field or calls
\* set(), delete() or clear()
tableAfterRouting(table, routings) == table

\* the methods of the command instance that executeSlashCommand calls, in order:
\* command.execute(interaction) is the one call made on the instance
commandMethodsCalled(call) == [i \in DOMAIN call.executed |-> "execute"]

\* the methods of the handler instance that the eventListener wrapper calls, in
\* order: handler.execute(...args) is the one call made on the instance
handlerMethodsCalled(l, execThrows) == <<"execute">>

Invocation(l, outcome) == [cls |-> l.cls, conn |-> l.conn, outcome |-> outcome]

\* the eventListener wrapper without its try/catch: the error of execute rejects the
\* wrapper's promise
eventListenerUncaught(l, execThrows) ==
    IF execThrows THEN Invocation(l, "rejected") ELSE Invocation(l, "ok")

\* the eventListener wrapper of registerEventHandlers around handler.execute: the
\* outcome is "ok", "caught" (execute threw, logged here) or "rejected" (the
\* wrapper's promise rejects)
eventListener(l, execThrows) ==
    IF execThrows THEN Invocation(l, "caught") ELSE Invocation(l, "ok")

----------------------------------------------------------------------------
(* JavaScript values, as createConfig handles them.  Every value is a      *)
(* record of one shape: t names the type, and s (a string's characters), n *)
(* (a number), b (a boolean) or o (a plain object's own entries, a set of  *)
(* <<key, value>>) holds the value.  A number is NaN, or whole plus the     *)
(* decimal digits frac after the point (no trailing zero).                  *)

NaN == [nan |-> TRUE, whole |-> 0, frac |-> <<>>]

Integer(i) == [nan |-> FALSE, whole |-> i, frac |-> <<>>]

Decimal(i, digits) == [nan |-> FALSE, whole |-> i, frac |-> digits]

JsUndefined == [t |-> "undefined", s |-> <<>>, n |-> Integer(0), b |-> FALSE, o |-> {}]

Str(s) == [JsUndefined EXCEPT !.t = "string", !.s = s]

Num(n) == [JsUndefined EXCEPT !.t = "number", !.n = n]

Bool(b) == [JsUndefined EXCEPT !.t = "boolean", !.b = b]

Obj(entries) == [JsUndefined EXCEPT !.t = "object", !.o = entries]

Null == [JsUndefined EXCEPT !.t = "null"]

\* an array: its own keys are the indices, written as strings
Arr(elems) ==
    [JsUndefined EXCEPT !.t = "array",
                        !.o = { <<(<<"0", "1", "2">>)[i], elems[i]>> : i \in DOMAIN elems }]

\* Object.keys(obj)
keys(obj) == { e[1] : e \in obj.o }

\* obj[key]
get(obj, key) ==
    IF key \in keys(obj) THEN (CHOOSE e \in obj.o : e[1] = key)[2] ELSE JsUndefined

\* obj[path[1]][path[2]]..., undefined as soon as a step is no object
RECURSIVE getIn(_, _)
getIn(obj, path) ==
    IF path = <<>> THEN obj
    ELSE IF obj.t # "object" THEN JsUndefined
    ELSE getIn(get(obj, Head(path)), Tail(path))

\* { ...obj, [key]: value }
put(obj, key, value) == Obj({ e \in obj.o : e[1] # key } \cup {<<key, value>>})

IsSpace(c) == c \in {" ", "\t", "\n"}

RECURSIVE trimStart(_)
trimStart(s) == IF s # <<>> /\ IsSpace(Head(s)) THEN trimStart(Tail(s)) ELSE s

RECURSIVE trimEnd(_)
trimEnd(s) ==
    IF s # <<>> /\ IsSpace(s[Len(s)]) THEN trimEnd(SubSeq(s, 1, Len(s) - 1)) ELSE s

\* String.prototype.trim
trim(s) == trimEnd(trimStart(s))

digitValue(c) == (CHOOSE i \in DOMAIN DigitChars : DigitChars[i] = c) - 1

\* the longest prefix of s made of decimal digits
RECURSIVE digitsPrefix(_)
digitsPrefix(s) ==
    IF s # <<>> /\ IsDigit(Head(s)) THEN <<Head(s)>> \o digitsPrefix(Tail(s)) ELSE <<>>

RECURSIVE digitsValue(_)
digitsValue(d) ==
    IF d = <<>> THEN 0
    ELSE 10 * digitsValue(SubSeq(d, 1, Len(d) - 1)) + digitValue(d[Len(d)])

RECURSIVE stripZeros(_)
stripZeros(d) ==
    IF d # <<>> /\ d[Len(d)] = "0" THEN stripZeros(SubSeq(d, 1, Len(d) - 1)) ELSE d

signed(negative, i) == IF negative THEN 0 - i ELSE i

\* parseInt(s, 10): leading blanks and a sign are skipped, the digits that follow
\* are read and whatever comes after them is ignored; NaN when no digit follows
parseInt(s) ==
    LET t == trimStart(s)
        u == IF t # <<>> /\ Head(t) \in {"-", "+"} THEN Tail(t) ELSE t
        d == digitsPrefix(u)
    IN  IF d = <<>> THEN NaN
        ELSE Integer(signed(t # <<>> /\ Head(t) = "-", digitsValue(d)))

\* Number(s) of a string: blanks around are dropped, the empty string is 0, and
\* the whole rest has to be a decimal literal (sign, digits, point, digits);
\* the strings of the model hold no exponent, radix prefix or Infinity
stringToNumber(s) ==
    LET t == trim(s)
        u == IF t # <<>> /\ Head(t) \in {"-", "+"} THEN Tail(t) ELSE t
        w == digitsPrefix(u)
        r == SubSeq(u, Len(w) + 1, Len(u))
        f == IF r # <<>> /\ Head(r) = "." THEN digitsPrefix(Tail(r)) ELSE <<>>
        wellFormed == \/ r = <<>> /\ w # <<>>
                      \/ r # <<>> /\ Head(r) = "." /\ Len(f) = Len(r) - 1
                                  /\ (w # <<>> \/ f # <<>>)
    IN  IF t = <<>> THEN Integer(0)
        ELSE IF ~wellFormed THEN NaN
        ELSE Decimal(signed(Head(t) = "-", digitsValue(w)), stripZeros(f))

\* Number(v)
toNumber(v) ==
    CASE v.t = "number"    -> v.n
      [] v.t = "string"    -> stringToNumber(v.s)
      [] v.t = "boolean"   -> Integer(IF v.b THEN 1 ELSE 0)
      [] OTHER             -> NaN

\* Boolean(v)
toBoolean(v) ==
    CASE v.t = "boolean"   -> v.b
      [] v.t = "string"    -> v.s # <<>>
      [] v.t = "number"    -> ~v.n.nan /\ (v.n.whole # 0 \/ v.n.frac # <<>>)
      [] v.t = "undefined" -> FALSE
      [] OTHER             -> TRUE

\* Number.isInteger
isInteger(n) == ~n.nan /\ n.frac = <<>>

----------------------------------------------------------------------------
(* utils/deepMerge.ts *)

DANGEROUS_KEYS == {"__proto__", "constructor", "prototype"}

\* isPlainObject: not null, typeof 'object', tagged [object Object] (no array), and
\* obj.constructor === Object, which an own key named constructor shadows with a
\* value that is not the Object function
isPlainObject(v) == v.t = "object" /\ "constructor" \notin keys(v)

\* deepMerge with the target's value winning wherever the target has one
deepMergeTargetWins(target, source) ==
    Obj({ <<k, IF k \in keys(target) THEN get(target, k) ELSE get(source, k)>> :
            k \in keys(target) \cup keys(source) })

\* deepMerge: a copy of target in which every own key of source, the dangerous
\* ones left out, is merged recursively when both values are plain objects and
\* else replaced when the source's value is not undefined
RECURSIVE deepMerge(_, _)
deepMerge(target, source) ==
    LET written == { k \in keys(source) \ DANGEROUS_KEYS :
                        \/ isPlainObject(get(source, k)) /\ isPlainObject(get(target, k))
                        \/ get(source, k) # JsUndefined }
        merged(k) == IF k \notin written THEN get(target, k)
                     ELSE IF isPlainObject(get(source, k)) /\ isPlainObject(get(target, k))
                          THEN deepMerge(get(target, k), get(source, k))
                     ELSE get(source, k)
    IN  Obj({ <<k, merged(k)>> : k \in keys(target) \cup written })

----------------------------------------------------------------------------
(* node:path on POSIX paths *)

\* String.prototype.split('/')
RECURSIVE split(_)
split(s) ==
    IF "/" \notin Range(s) THEN <<s>>
    ELSE LET i == CHOOSE i \in DOMAIN s : s[i] = "/" /\ \A j \in 1..(i - 1) : s[j] # "/"
         IN  <<SubSeq(s, 1, i - 1)>> \o split(SubSeq(s, i + 1, Len(s)))

\* the segments of an absolute path with the empty and '.' segments dropped and
\* each '..' removing the segment before it, if any
RECURSIVE normalizeSegments(_, _)
normalizeSegments(segs, acc) ==
    IF segs = <<>> THEN acc
    ELSE normalizeSegments(
             Tail(segs),
             IF Head(segs) = <<>> \/ Head(segs) = <<".">> THEN acc
             ELSE IF Head(segs) = <<".", ".">>
                  THEN (IF acc = <<>> THEN acc ELSE SubSeq(acc, 1, Len(acc) - 1))
             ELSE Append(acc, Head(segs)))

RECURSIVE joinAbsolute(_)
joinAbsolute(segs) ==
    IF segs = <<>> THEN <<>> ELSE <<"/">> \o Head(segs) \o joinAbsolute(Tail(segs))

\* path.isAbsolute
isAbsolute(p) == p # <<>> /\ Head(p) = "/"

\* the second argument returned as it is
resolveNothing(cwd, p) == p

\* path.resolve(cwd, p) for an absolute cwd
resolve(cwd, p) ==
    LET segs == normalizeSegments(split(IF isAbsolute(p) THEN p ELSE cwd \o <<"/">> \o p),
                                  <<>>)
    IN  IF segs = <<>> THEN <<"/">> ELSE joinAbsolute(segs)

\* path.join(dir, name) for an absolute dir and a relative name
join(dir, name) == resolve(dir, name)

----------------------------------------------------------------------------
(* The configuration schemas (zod).  A schema applied to a value gives the  *)
(* parsed value and the paths of the issues found, relative to the value.  *)

Parsed(v) == [issues |-> {}, value |-> v]

Invalid == [issues |-> {<<>>}, value |-> JsUndefined]

\* z.object({...}): fields holds, for each key of the schema, what the key's
\* schema makes of input[key]; other keys of the input are stripped
zObject(input, fields) ==
    IF input.t # "object" THEN Invalid
    ELSE [issues |-> UNION { { <<k>> \o p : p \in fields[k].issues } : k \in DOMAIN fields },
          value  |-> Obj({ <<k, fields[k].value>> :
                             k \in { f \in DOMAIN fields : fields[f].value # JsUndefined } })]

\* schema.optional()
zOptional(v, parsed) == IF v = JsUndefined THEN Parsed(JsUndefined) ELSE parsed

\* z.string()
zString(v) == IF v.t = "string" THEN Parsed(v) ELSE Invalid

\* z.boolean()
zBoolean(v) == IF v.t = "boolean" THEN Parsed(v) ELSE Invalid

\* z.string().min(1, ...)
zStringMin1(v) == IF v.t = "string" /\ Len(v.s) >= 1 THEN Parsed(v) ELSE Invalid

\* z.string().trim().min(1, ...)
zStringTrimMin1(v) ==
    IF v.t = "string" /\ Len(trim(v.s)) >= 1 THEN Parsed(Str(trim(v.s))) ELSE Invalid

SnowflakeMin == 17

SnowflakeMax == 20

\* z.string().trim().regex(/^\d{17,20}$/, ...)
zSnowflake(v) ==
    IF /\ v.t = "string"
       /\ Len(trim(v.s)) \in SnowflakeMin..SnowflakeMax
       /\ \A i \in DOMAIN trim(v.s) : IsDigit(trim(v.s)[i])
    THEN Parsed(Str(trim(v.s))) ELSE Invalid

\* z.number().int().min(lo).max(hi)
zIntBetween(v, lo, hi) ==
    IF v.t = "number" /\ isInteger(v.n) /\ v.n.whole >= lo /\ v.n.whole <= hi
    THEN Parsed(v) ELSE Invalid

\* z.coerce.number().int().min(lo).max(hi): Number(v) is what is validated
zCoerceIntBetween(v, lo, hi) == zIntBetween(Num(toNumber(v)), lo, hi)

\* z.coerce.boolean(): Boolean(v), which never fails
zCoerceBoolean(v) == Parsed(Bool(toBoolean(v)))

\* schema.default(d)
zDefault(v, d, parsed) == IF v = JsUndefined THEN Parsed(d) ELSE parsed

CloseTimeoutDefault == 5000

WaitGuildTimeoutDefault == 15000

ClientOptionsDefault ==
    Obj({ <<"closeTimeout", Num(Integer(CloseTimeoutDefault))>>,
          <<"waitGuildTimeout", Num(Integer(WaitGuildTimeoutDefault))>>,
          <<"failIfNotExists", Bool(TRUE)>>,
          <<"enforceNonce", Bool(FALSE)>> })

DiscordClientOptionsField(k, v) ==
    CASE k = "closeTimeout" ->
             zDefault(v, Num(Integer(CloseTimeoutDefault)), zIntBetween(v, 1000, 30000))
      [] k = "waitGuildTimeout" ->
             zDefault(v, Num(Integer(WaitGuildTimeoutDefault)), zIntBetween(v, 1000, 60000))
      [] k = "failIfNotExists" -> zDefault(v, Bool(TRUE), zBoolean(v))
      [] k = "enforceNonce" -> zDefault(v, Bool(FALSE), zBoolean(v))

\* the four fields of the client options that have defaults; the optional
\* fields (intents, presence, ...) are not given by any call of the model
DiscordClientOptionsSchema(v) ==
    zDefault(v, ClientOptionsDefault,
             zObject(v, [k \in {"closeTimeout", "waitGuildTimeout", "failIfNotExists", "enforceNonce"} |->
                    DiscordClientOptionsField(k, get(v, k))]))

DiscordConfigField(k, v) ==
    CASE k = "token" -> zStringTrimMin1(v)
      [] k = "clientId" -> zOptional(v, zSnowflake(v))
      [] k = "guildId" -> zOptional(v, zSnowflake(v))
      [] k = "clientOptions" -> DiscordClientOptionsSchema(v)

DiscordConfigSchema(v) ==
    zObject(v, [k \in {"token", "clientId", "guildId", "clientOptions"} |->
                    DiscordConfigField(k, get(v, k))])

DefaultPort == 5432

MaxPort == 65535

DatabaseConfigField(k, v) ==
    CASE k = "host" -> zDefault(v, Str(<<"l","o","c","a","l","h","o","s","t">>), zString(v))
      [] k = "port" -> zDefault(v, Num(Integer(DefaultPort)), zCoerceIntBetween(v, 1, MaxPort))
      [] k = "database" -> zStringMin1(v)
      [] k = "username" -> zStringMin1(v)
      [] k = "password" -> zStringMin1(v)
      [] k = "synchronize" -> zDefault(v, Bool(FALSE), zCoerceBoolean(v))
      [] k = "logging" -> zDefault(v, Bool(FALSE), zCoerceBoolean(v))

DatabaseConfigSchema(v) ==
    zObject(v, [k \in {"host", "port", "database", "username", "password", "synchronize", "logging"} |->
                    DatabaseConfigField(k, get(v, k))])

PathFields == {"entities", "commands", "jobs", "events", "services"}

\* the default of each path field
PathDefault(k) ==
    CASE k = "entities" -> <<".","/","s","r","c","/","e","n","t","i","t","i","e","s">>
      [] k = "commands" -> <<".","/","s","r","c","/","c","o","m","m","a","n","d","s">>
      [] k = "jobs"     -> <<".","/","s","r","c","/","j","o","b","s">>
      [] k = "events"   -> <<".","/","s","r","c","/","e","v","e","n","t","s">>
      [] k = "services" -> <<".","/","s","r","c","/","s","e","r","v","i","c","e","s">>

PathsConfigField(k, v) == zDefault(v, Str(PathDefault(k)), zStringMin1(v))

PathsConfigSchema(v) == zObject(v, [k \in PathFields |->
                    PathsConfigField(k, get(v, k))])

PinoTransportField(k, v) ==
    CASE k = "target" -> zString(v)
      [] k = "level" -> zOptional(v, zString(v))
      [] k = "options" -> zOptional(v, IF v.t = "object" THEN Parsed(v) ELSE Invalid)

\* the single-transport member of the union; no call of the model gives an array
PinoTransportSchema(v) == zObject(v, [k \in {"target", "level", "options"} |->
                    PinoTransportField(k, get(v, k))])

LoggerOptionsField(k, v) ==
    CASE k = "level" -> zOptional(v, zString(v))
      [] k = "name" -> zOptional(v, zString(v))
      [] k = "enabled" -> zOptional(v, zBoolean(v))
      [] k = "destination" ->
             zOptional(v, IF v.t \in {"string", "number"} THEN Parsed(v) ELSE Invalid)
      [] k = "transport" -> zOptional(v, PinoTransportSchema(v))

\* formatters, serializers and redact are given by no call of the model
LoggerOptionsSchema(v) ==
    zDefault(v, Obj({}),
             zObject(v, [k \in {"level", "name", "enabled", "destination", "transport"} |->
                    LoggerOptionsField(k, get(v, k))]))

BaseConfigField(k, v) ==
    CASE k = "isDevelopment" -> zDefault(v, Bool(TRUE), zBoolean(v))
      [] k = "discord" -> DiscordConfigSchema(v)
      [] k = "database" -> DatabaseConfigSchema(v)
      [] k = "paths" -> PathsConfigSchema(v)
      [] k = "logger" -> LoggerOptionsSchema(v)

BaseConfigSchema(v) ==
    zObject(v, [k \in {"isDevelopment", "discord", "database", "paths", "logger"} |->
                    BaseConfigField(k, get(v, k))])

----------------------------------------------------------------------------
(* utils/createConfig.ts.  env is process.env after dotenv.config(): each   *)
(* variable is a string or undefined.  The user schema is z.object({}).     *)

EnvNames == {"NODE_ENV", "DISCORD_TOKEN", "DISCORD_CLIENT_ID", "DISCORD_GUILD_ID",
             "DB_HOST", "DB_PORT", "DB_DATABASE", "DB_USERNAME", "DB_PASSWORD",
             "DB_SYNCHRONIZE", "DB_LOGGING"}

\* ...(cond && { [key]: value })
spread(cond, key, value) == IF toBoolean(cond) THEN {<<key, value>>} ELSE {}

createLoggerDefaults(isDevelopment, cwd) ==
    LET logFile == join(join(cwd, <<"l","o","g","s">>),
                        IF isDevelopment THEN <<"d","e","v","e","l","o","p","m","e","n","t",".","l","o","g">> ELSE <<"p","r","o","d","u","c","t","i","o","n",".","l","o","g">>)
    IN  IF isDevelopment
        THEN Obj({ <<"level", Str(<<"d","e","b","u","g">>)>>,
                   <<"transport",
                     Obj({ <<"target", Str(<<"p","i","n","o","-","p","r","e","t","t","y">>)>>,
                           <<"options",
                             Obj({ <<"colorize", Bool(TRUE)>>,
                                   <<"translateTime", Str(<<"H","H",":","M","M",":","s","s"," ","Z">>)>>,
                                   <<"ignore", Str(<<"p","i","d",",","h","o","s","t","n","a","m","e">>)>>,
                                   <<"destination", Str(logFile)>> })>> })>> })
        ELSE Obj({ <<"level", Str(<<"i","n","f","o">>)>>, <<"destination", Str(logFile)>> })

\* the configuration built from the environment variables
baseConfig(env, cwd) ==
    Obj({ <<"isDevelopment", Bool(env["NODE_ENV"] # Str(<<"p","r","o","d","u","c","t","i","o","n">>))>>,
          <<"discord",
            Obj(spread(env["DISCORD_TOKEN"], "token", env["DISCORD_TOKEN"])
                \cup spread(env["DISCORD_CLIENT_ID"], "clientId", env["DISCORD_CLIENT_ID"])
                \cup spread(env["DISCORD_GUILD_ID"], "guildId", env["DISCORD_GUILD_ID"]))>>,
          <<"database",
            Obj(spread(env["DB_HOST"], "host", env["DB_HOST"])
                \cup spread(env["DB_PORT"], "port", Num(parseInt(env["DB_PORT"].s)))
                \cup spread(env["DB_DATABASE"], "database", env["DB_DATABASE"])
                \cup spread(env["DB_USERNAME"], "username", env["DB_USERNAME"])
                \cup spread(env["DB_PASSWORD"], "password", env["DB_PASSWORD"])
                \cup spread(env["DB_SYNCHRONIZE"], "synchronize",
                            Bool(env["DB_SYNCHRONIZE"] = Str(<<"t","r","u","e">>)))
                \cup spread(env["DB_LOGGING"], "logging",
                            Bool(env["DB_LOGGING"] = Str(<<"t","r","u","e">>))))>>,
          <<"paths", Obj({})>>,
          <<"logger", createLoggerDefaults(env["NODE_ENV"] # Str(<<"p","r","o","d","u","c","t","i","o","n">>), cwd)>> })

\* what a createConfig call comes to: kind is "returned" (value is the
\* configuration), "exited" (process.exit(status)) or "threw" (the ZodError is
\* rethrown); issues are the paths printed to the console
Outcome(kind, value, issues, status) ==
    [kind |-> kind, value |-> value, issues |-> issues, status |-> status]

NoOutcome == Outcome("none", JsUndefined, {}, 0)

\* the paths of a parsed configuration resolved against the working directory
resolvedConfig(parsedConfig, cwd) ==
    put(parsedConfig, "paths",
        Obj({ <<k, Str(resolve(cwd, getIn(parsedConfig, <<"paths", k>>).s))>> :
                k \in PathFields }))

\* the options parameter, { shouldExit: true } when the argument is omitted
optionsOrDefault(options) ==
    IF options = JsUndefined THEN Obj({<<"shouldExit", Bool(TRUE)>>}) ELSE options

createConfig(env, overrides, options, cwd) ==
    CHOOSE result \in
        { IF parsed.issues = {}
          THEN Outcome("returned", resolvedConfig(parsed.value, cwd), {}, 0)
          ELSE IF toBoolean(get(optionsOrDefault(options), "shouldExit"))
               THEN Outcome("exited", JsUndefined, parsed.issues, 1)
          ELSE Outcome("threw", JsUndefined, parsed.issues, 0) :
            parsed \in { BaseConfigSchema(IF toBoolean(overrides)
                                          THEN deepMerge(baseConfig(env, cwd), overrides)
                                          ELSE baseConfig(env, cwd)) } } : TRUE

----------------------------------------------------------------------------
(* The createConfig calls of the model: a call that validates, changed in   *)
(* at most MaxVaried places.  A change sets one environment variable, one   *)
(* field of the overrides, the options argument or the working directory.   *)

MaxVaried == 2

Change(target, path, value) == [target |-> target, path |-> path, value |-> value]

EnvChanges ==
    { Change("env", <<"NODE_ENV">>, Str(v)) : v \in {<<"p","r","o","d","u","c","t","i","o","n">>, <<"d","e","v","e","l","o","p","m","e","n","t">>} }
    \cup { Change("env", <<"DISCORD_TOKEN">>, v) :
             v \in {JsUndefined, Str(<<>>), Str(<<" "," "," ">>), Str(<<" ","a","b","c"," ">>)} }
    \cup { Change("env", <<"DISCORD_GUILD_ID">>, Str(v)) :
             v \in {<<"1","2","3","4","5","6","7","8","9","0","1","2","3","4","5","6","7">>, <<"t","e","s","t","-","g","u","i","l","d">>} }
    \cup { Change("env", <<"DB_HOST">>, Str(<<"d","b",".","l","o","c","a","l">>)) }
    \cup { Change("env", <<"DB_PORT">>, Str(v)) :
             v \in {<<"3","3","0","6">>, <<"8","0",".","5">>, <<"1","2","a","b","c">>, <<"n","o","t","-","a","-","n","u","m","b","e","r">>, <<"7","0","0","0","0">>, <<"0">>,
                    <<"-","1">>, <<" ","4","2"," ">>} }
    \cup { Change("env", <<"DB_DATABASE">>, v) :
             v \in {JsUndefined, Str(<<>>), Str(<<" "," ">>), Str(<<" ","d","b"," ">>)} }
    \cup { Change("env", <<"DB_USERNAME">>, v) : v \in {JsUndefined, Str(<<" "," ">>)} }
    \cup { Change("env", <<"DB_PASSWORD">>, v) : v \in {JsUndefined, Str(<<" "," ">>)} }
    \cup { Change("env", <<"DB_SYNCHRONIZE">>, Str(v)) : v \in {<<"t","r","u","e">>, <<"f","a","l","s","e">>, <<"1">>} }
    \cup { Change("env", <<"DB_LOGGING">>, Str(v)) : v \in {<<"t","r","u","e">>, <<"f","a","l","s","e">>, <<"y","e","s">>} }

OverrideChanges ==
    { Change("overrides", <<"isDevelopment">>, Bool(b)) : b \in BOOLEAN }
    \cup { Change("overrides", <<"discord", "token">>, v) :
             v \in {Str(<<" "," ","t","e","s","t","-","t","o","k","e","n"," "," ">>), Str(<<>>), Str(<<" "," "," ">>), Num(Integer(5))} }
    \cup { Change("overrides", <<"discord", "guildId">>, Str(<<"9","8","7","6","5","4","3","2","1","0","9","8","7","6","5","4","3">>)) }
    \cup { Change("overrides", <<"database">>, JsUndefined) }
    \cup { Change("overrides", <<"database", "host">>, Str(<<"r","e","m","o","t","e">>)) }
    \cup { Change("overrides", <<"database", "port">>, v) :
             v \in {Str(<<"3","3","0","6">>), Str(<<"8","0",".","5">>), Str(<<"a","b","c">>), Str(<<>>),
                    Num(Integer(3306)), Num(Integer(70000)), Num(Integer(0)),
                    Num(Decimal(80, <<"5">>)), Bool(TRUE)} }
    \cup { Change("overrides", <<"database", "database">>, Str(v)) :
             v \in {<<"t","e","s","t">>, <<" "," "," ">>, <<>>} }
    \cup { Change("overrides", <<"database", "username">>, Str(v)) :
             v \in {<<"r","o","o","t">>, <<" "," "," ">>} }
    \cup { Change("overrides", <<"database", "password">>, Str(v)) :
             v \in {<<"s","e","c","r","e","t">>, <<" "," "," ">>} }
    \cup { Change("overrides", <<"database", "synchronize">>, v) :
             v \in {Bool(TRUE), Bool(FALSE), Str(<<"t","r","u","e">>), Str(<<"f","a","l","s","e">>), Str(<<>>)} }
    \cup { Change("overrides", <<"database", "logging">>, v) :
             v \in {Bool(TRUE), Str(<<"t","r","u","e">>), Str(<<"f","a","l","s","e">>)} }
    \cup { Change("overrides", <<"paths", "entities">>, Str(v)) :
             v \in {<<".","/","c","u","s","t","o","m","/","e","n","t","i","t","i","e","s">>, <<".",".","/","s","h","a","r","e","d">>, <<"/","o","p","t","/","b","o","t","/","e","n","t","i","t","i","e","s">>,
                    <<"c","u","s","t","o","m">>, <<>>} }
    \cup { Change("overrides", <<"paths", "commands">>, Str(<<".","/","c","u","s","t","o","m","/","c","o","m","m","a","n","d","s">>)) }
    \cup { Change("overrides", <<"paths", "jobs">>, Str(<<"j","o","b","s","/">>)) }
    \cup { Change("overrides", <<"paths", "events">>, Str(<<".",".","/","s","h","a","r","e","d">>)) }
    \cup { Change("overrides", <<"paths", "services">>, Str(<<"/","o","p","t","/","s","e","r","v","i","c","e","s">>)) }
    \cup { Change("overrides", <<"logger", "transport">>, v) :
             v \in { Obj({ <<"target", Str(<<"p","i","n","o","/","f","i","l","e">>)>>,
                           <<"options", Obj({<<"destination", Str(<<".","/","c","u","s","t","o","m",".","l","o","g">>)>>})>> }),
                     Obj({ <<"target", Str(<<"p","i","n","o","/","f","i","l","e">>)>> }) } }

OptionChanges ==
    { Change("options", <<>>, v) :
        v \in { Obj({}),
                Obj({<<"shouldExit", Bool(TRUE)>>}),
                Obj({<<"shouldExit", Bool(FALSE)>>}),
                Obj({<<"shouldExit", Bool(FALSE)>>, <<"silent", Bool(TRUE)>>}) } }

CwdChanges == { Change("cwd", <<>>, Str(<<"/","s","r","v","/","b","o","t">>)) }

Changes == EnvChanges \cup OverrideChanges \cup OptionChanges \cup CwdChanges

\* obj with the value at path set, the objects on the way created when missing
RECURSIVE putIn(_, _, _)
putIn(obj, path, value) ==
    IF Len(path) = 1 THEN put(IF obj.t = "object" THEN obj ELSE Obj({}), path[1], value)
    ELSE put(IF obj.t = "object" THEN obj ELSE Obj({}), path[1],
             putIn(get(obj, path[1]), Tail(path), value))

\* a call that validates: the four required variables set, no overrides, the
\* options argument omitted
BaseCall ==
    [env       |-> [name \in EnvNames |->
                      CASE name = "DISCORD_TOKEN" -> Str(<<"a","b","c">>)
                        [] name = "DB_DATABASE"   -> Str(<<"d","b">>)
                        [] name = "DB_USERNAME"   -> Str(<<"u","s","e","r">>)
                        [] name = "DB_PASSWORD"   -> Str(<<"p","a","s","s">>)
                        [] OTHER                  -> JsUndefined],
     overrides |-> JsUndefined,
     options   |-> JsUndefined,
     cwd       |-> <<"/","a","p","p">>]

Changed(call, c) ==
    CASE c.target = "env"       -> [call EXCEPT !.env[c.path[1]] = c.value]
      [] c.target = "overrides" -> [call EXCEPT !.overrides = putIn(call.overrides, c.path, c.value)]
      [] c.target = "options"   -> [call EXCEPT !.options = c.value]
      [] c.target = "cwd"       -> [call EXCEPT !.cwd = c.value.s]

RECURSIVE Varied(_)
Varied(n) ==
    IF n = 0 THEN {BaseCall}
    ELSE Varied(n - 1) \cup { Changed(call, c) : call \in Varied(n - 1), c \in Changes }

Calls == Varied(MaxVaried)

NoConfigCall == [call |-> BaseCall, outcome |-> NoOutcome]

NoConvCall == [fn |-> "none", cls |-> "none", input |-> <<>>, result |-> <<>>,
               description |-> <<>>]

----------------------------------------------------------------------------
(* services/LoggerService: a Map of child loggers by name.  A logger is an  *)
(* object; id tells one object from another, bindings is what child() bound. *)

MaxChildren == 6

\* the names getLogger is called with; the empty string is a name like any other
LoggerNames == {<<>>, <<"a","p","i">>, <<"d","b">>}

\* this.baseLogger.child({ name: loggerName }): a new object on every call
Child(id, loggerName) == [id |-> id, bindings |-> [name |-> loggerName]]

\* new LoggerService(): no child logger yet
NewLoggerService == [loggers |-> NewMap, children |-> 0]

\* getLogger without the look-up in the Map: a child is made on every call
getLoggerUncached(service, loggerName) ==
    CHOOSE r \in
        { [service  |-> [loggers  |-> mapSet(service.loggers, loggerName, childLogger),
                         children |-> service.children + 1],
           returned |-> childLogger] :
            childLogger \in {Child(service.children + 1, loggerName)} } : TRUE

\* getLogger: the cached logger when the Map has one under the name, else a new
\* child, stored under the name
getLogger(service, loggerName) ==
    IF mapHas(service.loggers, loggerName)
    THEN [service |-> service, returned |-> mapGet(service.loggers, loggerName)]
    ELSE CHOOSE r \in
            { [service  |-> [loggers  |-> mapSet(service.loggers, loggerName, childLogger),
                             children |-> service.children + 1],
               returned |-> childLogger] :
                childLogger \in {Child(service.children + 1, loggerName)} } : TRUE

\* clearLoggers: this.loggers.clear()
clearLoggers(service) == [service EXCEPT !.loggers = NewMap]

\* the loggerCount getter: this.loggers.size
loggerCount(service) == Len(service.loggers.entries)

NoLogger == Child(0, <<>>)

\* no getLogger call since the last clearLoggers (or the construction)
NoLoggerCalls == [requested |-> {}, given |-> {}, last |-> "none", returned |-> NoLogger]

\* no deepMerge call made yet
NoMergeCall == [target |-> Obj({}), source |-> Obj({}), result |-> JsUndefined,
                done |-> FALSE]

\* the utilities before any call of theirs
UtilityInit ==
    /\ loggerService = NewLoggerService
    /\ loggerCalls = NoLoggerCalls
    /\ mergeCall = NoMergeCall

----------------------------------------------------------------------------
(* The DiscordService before connect() *)

NoFound == [cdir |-> Unreadable, edir |-> Unreadable, commands |-> <<>>, handlers |-> <<>>]

NoDispatch == [event |-> NoName, invoked |-> <<>>, escaped |-> FALSE, methods |-> <<>>]

\* the part of the configuration that registration reads: guildMode is
\* config.isDevelopment && config.discord.guildId
Configs == [guildMode : BOOLEAN]

DiscordInit ==
    /\ pc = "idle"
    /\ connects = 0
    /\ found = NoFound
    /\ listeners = <<>>
    /\ commandInstances = Undefined
    /\ pushCalls = <<>>
    /\ loggedIn = FALSE
    /\ connectResult = "none"
    /\ logs = {}
    /\ routed = <<>>
    /\ dispatched = NoDispatch
    /\ crashed = FALSE
    /\ config \in Configs
    /\ fired = {}

----------------------------------------------------------------------------
(* DiscoveryService called on its own.  The service keeps no state between *)
(* calls, so the directory is drawn once and each of the four methods is   *)
(* applied to it.                                                          *)

DiscoveryInit ==
    /\ DiscordInit
    /\ configCall = NoConfigCall
    /\ convCall = NoConvCall
    /\ UtilityInit
    /\ \E dir \in Directories : scan = [NoScan EXCEPT !.dir = dir]

Scan(kind) ==
    LET r == discover(kind, scan.dir)
    IN  scan' = [kind |-> kind, dir |-> scan.dir, outcome |-> r.outcome,
                 classes |-> r.classes, logs |-> r.logs]

discoverEntities == Scan("Entity") /\ UNCHANGED discordVars

discoverCommands == Scan("Command") /\ UNCHANGED discordVars

discoverJobs == Scan("Job") /\ UNCHANGED discordVars

discoverEvents == Scan("Event") /\ UNCHANGED discordVars

DiscoveryNext == discoverEntities \/ discoverCommands \/ discoverJobs \/ discoverEvents

DiscoverySpec == DiscoveryInit /\ [][DiscoveryNext]_vars

----------------------------------------------------------------------------
(* createConfig called on its own: the call is drawn once and made once.   *)

ConfigInit ==
    /\ DiscordInit
    /\ ~config.guildMode
    /\ scan = NoScan
    /\ convCall = NoConvCall
    /\ UtilityInit
    /\ \E call \in Calls : configCall = [call |-> call, outcome |-> NoOutcome]

CreateConfig ==
    /\ configCall.outcome = NoOutcome
    /\ configCall' = [configCall EXCEPT
                        !.outcome = createConfig(configCall.call.env, configCall.call.overrides,
                                                 configCall.call.options, configCall.call.cwd)]
    /\ UNCHANGED <<scan, serviceVars, convCall, utilityVars>>

ConfigNext == CreateConfig

ConfigSpec == ConfigInit /\ [][ConfigNext]_vars

----------------------------------------------------------------------------
(* The naming conversions and the name getters called on their own.  The    *)
(* string is drawn once: up to MaxLen characters of Alphabet followed by one *)
(* of Endings, one of the names the tests use, or the name of a class of    *)
(* the model; one conversion is applied to it, or a getter is called on an  *)
(* instance of the class of that name.                                      *)

MaxLen == 4

Alphabet == {"A", "B", "c", "2"}

RECURSIVE Words(_)
Words(n) ==
    IF n = 0 THEN {<<>>}
    ELSE Words(n - 1) \cup { Append(w, ch) : w \in Words(n - 1), ch \in Alphabet }

Endings == {<<>>, sCommand, sJob, sEvent, sEntity, <<"c","o","m","m","a","n","d">>, <<"C","o","m","m","a","n","d","s">>}

TestNames ==
    {<<"H","T","M","L","P","a","r","s","e","r">>, <<"X","M","L","H","t","t","p","R","e","q","u","e","s","t">>, <<"A","P","I","2","R","e","s","p","o","n","s","e">>, <<"A","B","C">>, <<"U","s","e","r","I","n","f","o","C","o","m","m","a","n","d">>,
     <<"P","r","o","c","e","s","s","D","a","t","a","J","o","b">>, <<"M","e","s","s","a","g","e","C","r","e","a","t","e","E","v","e","n","t">>, <<"G","u","i","l","d","S","e","t","t","i","n","g","s","E","n","t","i","t","y">>}

\* the classes of the model that extend BaseSlashCommand, and BaseEventHandler
SlashCommands ==
    { c \in ExportIds \ {"BaseSlashCommand"} : walkPrototypeChain(c, "BaseSlashCommand") }

EventHandlers ==
    { c \in ExportIds \ {"BaseEventHandler"} : walkPrototypeChain(c, "BaseEventHandler") }

ClassNames ==
    { w \o e : w \in Words(MaxLen), e \in Endings }
    \cup TestNames
    \cup { Exports[c].name : c \in SlashCommands \cup EventHandlers }

ConventionsInit ==
    /\ DiscordInit
    /\ ~config.guildMode
    /\ scan = NoScan
    /\ configCall = NoConfigCall
    /\ UtilityInit
    /\ \E s \in ClassNames : convCall = [NoConvCall EXCEPT !.input = s]

\* a conversion applied to the string
Converted(fn, result) ==
    /\ convCall.fn = "none"
    /\ convCall' = [NoConvCall EXCEPT !.fn = fn, !.input = convCall.input,
                                      !.result = result]
    /\ UNCHANGED <<scan, serviceVars, configCall, utilityVars>>

\* a getter or method called on an instance of class c
Called(fn, c, result, desc) ==
    /\ convCall.fn = "none"
    /\ convCall.input = Exports[c].name
    /\ convCall' = [fn |-> fn, cls |-> c, input |-> Exports[c].name, result |-> result,
                    description |-> desc]
    /\ UNCHANGED <<scan, serviceVars, configCall, utilityVars>>

CommandNameToId == Converted("commandNameToId", commandNameToId(convCall.input))

JobNameToId == Converted("jobNameToId", jobNameToId(convCall.input))

EventNameToDiscordEvent ==
    Converted("eventNameToDiscordEvent", eventNameToDiscordEvent(convCall.input))

EntityNameToTableName ==
    Converted("entityNameToTableName", entityNameToTableName(convCall.input))

PascalToKebab == Converted("pascalToKebab", pascalToKebab(convCall.input))

PascalToCamel == Converted("pascalToCamel", pascalToCamel(convCall.input))

GetCommandName == \E c \in SlashCommands : Called("commandName", c, commandName(c), <<>>)

GetEventName == \E c \in EventHandlers : Called("eventName", c, eventName(c), <<>>)

\* command.buildCommand().toJSON(), Throws when buildCommand throws
BuildCommand ==
    \E c \in SlashCommands :
        IF buildCommand(c).threw THEN Called("buildCommand", c, Throws, <<>>)
        ELSE Called("buildCommand", c, toJSON(buildCommand(c)).name,
                    toJSON(buildCommand(c)).description)

ConventionsNext ==
    \/ CommandNameToId
    \/ JobNameToId
    \/ EventNameToDiscordEvent
    \/ EntityNameToTableName
    \/ PascalToKebab
    \/ PascalToCamel
    \/ GetCommandName
    \/ GetEventName
    \/ BuildCommand

ConventionsSpec == ConventionsInit /\ [][ConventionsNext]_vars

----------------------------------------------------------------------------
(* A LoggerService called on its own: any sequence of getLogger and         *)
(* clearLoggers calls that makes at most MaxChildren child loggers.         *)

LoggerInit ==
    /\ DiscordInit
    /\ ~config.guildMode
    /\ scan = NoScan
    /\ configCall = NoConfigCall
    /\ convCall = NoConvCall
    /\ UtilityInit

\* loggerService.getLogger(loggerName); loggerCalls keeps what was asked for and
\* handed out since the last clearLoggers
GetLogger ==
    /\ \E loggerName \in LoggerNames :
          /\ \/ mapHas(loggerService.loggers, loggerName)
             \/ loggerService.children < MaxChildren
          /\ \E r \in {getLogger(loggerService, loggerName)} :
                /\ loggerService' = r.service
                /\ loggerCalls' =
                      [requested |-> loggerCalls.requested \cup {loggerName},
                       given     |-> loggerCalls.given \cup {<<loggerName, r.returned>>},
                       last      |-> "getLogger",
                       returned  |-> r.returned]
    /\ UNCHANGED <<scan, serviceVars, configCall, convCall, mergeCall>>

\* loggerService.clearLoggers()
ClearLoggers ==
    /\ loggerCalls.last # "clearLoggers"
    /\ loggerService' = clearLoggers(loggerService)
    /\ loggerCalls' = [NoLoggerCalls EXCEPT !.last = "clearLoggers"]
    /\ UNCHANGED <<scan, serviceVars, configCall, convCall, mergeCall>>

LoggerNext ==
    \/ GetLogger
    \/ ClearLoggers

LoggerSpec == LoggerInit /\ [][LoggerNext]_vars

----------------------------------------------------------------------------
(* deepMerge called on its own: the target and the source are drawn from   *)
(* objects of two levels, with primitives, null, arrays and objects as     *)
(* values and the dangerous key names among the keys.                       *)

\* the objects over a subset of the keys ks with values of vs
Objects(ks, vs) ==
    UNION { { Obj({ <<k, f[k]>> : k \in S }) : f \in [S -> vs] } : S \in SUBSET ks }

MergeLeaves == {JsUndefined, Null, Num(Integer(1)), Arr(<<Num(Integer(2))>>)}

\* the values under the key a: a leaf, or an object of leaves
MergeValues ==
    MergeLeaves \cup Objects({"x", "prototype", "constructor"}, {JsUndefined, Num(Integer(3))})

MergeTargets ==
    { Obj(a \cup b) : a \in {{}} \cup { {<<"a", v>>} : v \in MergeValues },
                      b \in {{}, {<<"b", Num(Integer(1))>>}} }

MergeSources ==
    { Obj(a \cup b \cup p) :
        a \in {{}} \cup { {<<"a", v>>} : v \in MergeValues },
        b \in {{}, {<<"b", JsUndefined>>}},
        p \in {{}, {<<"__proto__", Obj({<<"x", Num(Integer(3))>>})>>}} }

DeepMergeInit ==
    /\ DiscordInit
    /\ ~config.guildMode
    /\ scan = NoScan
    /\ configCall = NoConfigCall
    /\ convCall = NoConvCall
    /\ loggerService = NewLoggerService
    /\ loggerCalls = NoLoggerCalls
    /\ \E target \in MergeTargets, source \in MergeSources :
          mergeCall = [NoMergeCall EXCEPT !.target = target, !.source = source]

\* deepMerge(target, source)
DeepMerge ==
    /\ ~mergeCall.done
    /\ mergeCall' = [mergeCall EXCEPT !.result = deepMerge(mergeCall.target, mergeCall.source),
                                      !.done = TRUE]
    /\ UNCHANGED <<scan, serviceVars, configCall, convCall, loggerService, loggerCalls>>

DeepMergeNext == DeepMerge

DeepMergeSpec == DeepMergeInit /\ [][DeepMergeNext]_vars

----------------------------------------------------------------------------
(* DiscordService.connect(), step by step, and the client's emissions *)

MaxConnects == 2

Dir(entries) == [readable |-> TRUE, entries |-> entries]

\* the commands directories and events directories a connect() can meet
CommandDirs ==
    { Unreadable, Dir(<<"fPing">>), Dir(<<"fBadCmd", "fPing">>),
      Dir(<<"fPing", "fUserInfo">>), Dir(<<"fCustom", "fPing">>),
      Dir(<<"fLegacy", "fUserInfo">>), Dir(<<"fLegacy">>) }

EventDirs ==
    { Unreadable, Dir(<<"fMessage", "fReady">>),
      Dir(<<"fInteraction", "fMessage">>), Dir(<<"fOddEvent", "fMessage">>) }

sUserInfo == <<"u","s","e","r","-","i","n","f","o">>
sStale    == <<"s","t","a","l","e">>

\* the command names an inbound chat-input interaction can carry
InteractionNames == {sPing, sUserInfo, sStale}

\* the events the client emits besides interactionCreate
EmittedEvents == {sReady, sMessageCreate, sError}

Init ==
    /\ DiscordInit
    /\ scan = NoScan
    /\ configCall = NoConfigCall
    /\ convCall = NoConvCall
    /\ UtilityInit

\* a catch block that logs and returns
ConnectSwallows(lg) ==
    /\ pc' = "idle"
    /\ connectResult' = "ok"
    /\ found' = NoFound
    /\ logs' = lg \cup {LogEntry("error", "Failed to connect to Discord", "")}

\* the catch block of connect(): log and rethrow
ConnectThrows(lg) ==
    /\ pc' = "idle"
    /\ connectResult' = "threw"
    /\ found' = NoFound
    /\ logs' = lg \cup {LogEntry("error", "Failed to connect to Discord", "")}

\* connect() up to its first await: setupClientErrorHandlers
Connect ==
    /\ pc = "idle"
    /\ ~crashed
    /\ connects < MaxConnects
    /\ connects' = connects + 1
    /\ listeners' = listeners \o setupClientErrorHandlers(connects + 1)
    /\ pc' = "discover"
    /\ logs' = {LogEntry("info", "Starting Discord connection process", ""),
                LogEntry("debug", "Built-in interaction handler registered", "")}
    /\ pushCalls' = <<>>
    /\ routed' = <<>>
    /\ dispatched' = NoDispatch
    /\ UNCHANGED <<utilityVars, fired, configCall, convCall, scan, found, commandInstances, loggedIn, connectResult,
                   crashed, config>>

\* discoverAndRegister: Promise.all of discoverCommands() and discoverEvents()
DiscoverAndRegister ==
    /\ pc = "discover"
    /\ \E cdir \in CommandDirs, edir \in EventDirs :
          \E c \in {discover("Command", cdir)}, e \in {discover("Event", edir)} :
              IF c.outcome = "threw" \/ e.outcome = "threw"
              THEN ConnectThrows(c.logs \cup e.logs)
              ELSE /\ pc' = "registerCommands"
                   /\ found' = [cdir |-> cdir, edir |-> edir,
                                commands |-> c.classes, handlers |-> e.classes]
                   /\ logs' = c.logs \cup e.logs
                   /\ UNCHANGED connectResult
    /\ UNCHANGED <<utilityVars, fired, configCall, convCall, scan, connects, listeners, commandInstances, pushCalls,
                   loggedIn, routed, dispatched, crashed, config>>

\* discoverAndRegister: await this.registerCommands(commands)
RegisterCommands ==
    /\ pc = "registerCommands"
    /\ \E ext \in Externals :
          \E r \in {registerCommands(found.commands, commandInstances,
                                     config.guildMode, ext)} :
              /\ commandInstances' = r.table
              /\ pushCalls' = r.calls
              /\ IF r.threw
                 THEN ConnectThrows(r.logs)
                 ELSE /\ pc' = "registerEvents"
                      /\ logs' = r.logs
                      /\ UNCHANGED <<found, connectResult>>
    /\ UNCHANGED <<utilityVars, fired, configCall, convCall, scan, connects, listeners, loggedIn, routed, dispatched, crashed, config>>

\* discoverAndRegister: this.registerEventHandlers(handlers)
RegisterEventHandlers ==
    /\ pc = "registerEvents"
    /\ \E r \in {registerEventHandlers(found.handlers, connects)} :
           /\ listeners' = listeners \o r.added
           /\ IF r.threw
              THEN ConnectThrows(r.logs)
              ELSE /\ pc' = "login"
                   /\ logs' = r.logs
                   /\ UNCHANGED <<found, connectResult>>
    /\ pushCalls' = <<>>
    /\ UNCHANGED <<utilityVars, fired, configCall, convCall, scan, connects, commandInstances, loggedIn, routed,
                   dispatched, crashed, config>>

\* connect(): await this.discordClient.login(token), which resolves or rejects
Login ==
    /\ pc = "login"
    /\ \E ok \in BOOLEAN :
          IF ok
          THEN /\ loggedIn' = TRUE
               /\ pc' = "idle"
               /\ connectResult' = "ok"
               /\ found' = NoFound
               /\ logs' = {LogEntry("info", "Successfully connected to Discord", "")}
          ELSE /\ ConnectThrows({})
               /\ UNCHANGED loggedIn
    /\ UNCHANGED <<utilityVars, fired, configCall, convCall, scan, connects, listeners, commandInstances, pushCalls,
                   routed, dispatched, crashed, config>>

\* the positions in the listener list of the listeners subscribed to an event
Subscribed(event) == SelectSeq([i \in DOMAIN listeners |-> i],
                               LAMBDA i : listeners[i].event = event)

\* the client emits an event other than interactionCreate: every listener
\* subscribed to it is called, once-listeners are unsubscribed
Emit ==
    /\ pc = "idle"
    /\ loggedIn
    /\ ~crashed
    /\ \E event \in EmittedEvents :
          \E subs \in {Subscribed(event)} :
            \E throws \in [DOMAIN subs -> BOOLEAN] :
              \E inv \in {[k \in DOMAIN subs |->
                              IF listeners[subs[k]].kind = "handler"
                              THEN eventListener(listeners[subs[k]], throws[k])
                              ELSE Invocation(listeners[subs[k]], "ok")]} :
                LET esc == \E k \in DOMAIN inv : inv[k].outcome = "rejected"
                IN  /\ \A k \in DOMAIN subs :
                          listeners[subs[k]].kind # "handler" => ~throws[k]
                    /\ dispatched' = [event |-> event, invoked |-> inv, escaped |-> esc,
                                      methods |-> [k \in DOMAIN subs |->
                                          IF listeners[subs[k]].kind = "handler"
                                          THEN handlerMethodsCalled(listeners[subs[k]],
                                                                    throws[k])
                                          ELSE <<>>]]
                    /\ crashed' = esc
                    /\ listeners' = SelectSeq(listeners,
                                              LAMBDA l : ~(l.event = event /\ l.once))
                    /\ fired' = fired \cup
                          { [cls |-> listeners[subs[k]].cls, conn |-> listeners[subs[k]].conn] :
                              k \in { j \in DOMAIN subs :
                                        /\ listeners[subs[j]].kind = "handler"
                                        /\ Exports[listeners[subs[j]].cls].once } }
                    /\ logs' = { LogEntry("error", "Event handler execution failed",
                                          inv[k].cls) :
                                   k \in { j \in DOMAIN inv : inv[j].outcome = "caught" } }
    /\ routed' = <<>>
    /\ pushCalls' = <<>>
    /\ UNCHANGED <<utilityVars, configCall, convCall, scan, pc, connects, found, commandInstances, loggedIn,
                   connectResult, config>>

\* the client emits interactionCreate: every listener subscribed to it (the built-in
\* routers) is called with the interaction.  Inputs that the handlers do not read
\* (a command name on a component interaction, the reply state after an execute that
\* returned, an execute outcome when no command is found) are fixed.
Interaction ==
    /\ pc = "idle"
    /\ loggedIn
    /\ ~crashed
    /\ \E type \in InteractionTypes, name \in InteractionNames, inp \in RouteInputs :
        /\ type # "chatInput" => (name = sStale /\ ~inp.execThrows)
        /\ (type = "chatInput" /\ ~mapHas(commandInstances, name)) => ~inp.execThrows
        /\ (type = "chatInput" /\ ~inp.execThrows) => (~inp.deferred /\ ~inp.replied)
        /\ \E subs \in {Subscribed(sInteractionCreate)} :
           \E runs \in {[k \in DOMAIN subs |->
                           interactionListener(type, commandInstances, name, inp)]} :
          LET inv  == [k \in DOMAIN subs |->
                         Invocation(listeners[subs[k]],
                                    IF runs[k].threw THEN "rejected" ELSE "ok")]
              esc  == \E k \in DOMAIN runs : runs[k].threw
          IN  /\ routed' = [k \in DOMAIN subs |->
                              [type |-> type, name |-> name, inp |-> inp,
                               call |-> runs[k].call,
                               methods |-> commandMethodsCalled(runs[k].call)]]
              /\ dispatched' = [event |-> sInteractionCreate, invoked |-> inv,
                                escaped |-> esc,
                                methods |-> [k \in DOMAIN subs |-> <<>>]]
              /\ commandInstances' = tableAfterRouting(commandInstances, Len(subs))
              /\ crashed' = esc
              /\ logs' = UNION { runs[k].logs : k \in DOMAIN runs }
    /\ pushCalls' = <<>>
    /\ UNCHANGED <<utilityVars, fired, configCall, convCall, scan, pc, connects, found, listeners,
                   loggedIn, connectResult, config>>

Next ==
    \/ Connect
    \/ DiscoverAndRegister
    \/ RegisterCommands
    \/ RegisterEventHandlers
    \/ Login
    \/ Emit
    \/ Interaction

Spec == Init /\ [][Next]_vars

----------------------------------------------------------------------------
(* Properties of registration and routing, checked under Spec *)

\* a command class whose constructor, name derivation or buildCommand throws
CommandFails(c) ==
    Exports[c].ctorThrows \/ commandName(c) = Throws \/ Exports[c].buildThrows

\* an event handler class whose constructor or name derivation throws
HandlerFails(c) == Exports[c].ctorThrows \/ eventName(c) = Throws

\* the keys of the lookup table
TableNames(table) == { table.entries[i].key : i \in DOMAIN table.entries }

\* the last class of a list that registers under a name
LastNamed(commands, name) ==
    commands[CHOOSE i \in DOMAIN commands :
                /\ ~CommandFails(commands[i]) /\ commandName(commands[i]) = name
                /\ \A j \in DOMAIN commands :
                      (~CommandFails(commands[j]) /\ commandName(commands[j]) = name)
                          => j <= i]

\* the discovered commands all instantiate and build, under pairwise distinct names
AllBuildDistinct(commands) ==
    /\ commands # <<>>
    /\ \A i \in DOMAIN commands : ~CommandFails(commands[i])
    /\ \A i, j \in DOMAIN commands :
          i # j => commandName(commands[i]) # commandName(commands[j])

FailureIsolation ==
    [][ /\ pc = "registerCommands" =>
              \A i \in DOMAIN found.commands :
                  IF CommandFails(found.commands[i])
                  THEN LogEntry("error", "Failed to prepare command for registration",
                                found.commands[i]) \in logs'
                  ELSE /\ mapHas(commandInstances', commandName(found.commands[i]))
                       /\ mapGet(commandInstances', commandName(found.commands[i]))
                            = LastNamed(found.commands, commandName(found.commands[i]))
        /\ pc = "registerEvents" =>
              \A i \in DOMAIN found.handlers :
                  IF HandlerFails(found.handlers[i])
                  THEN LogEntry("error", "Failed to register event handler",
                                found.handlers[i]) \in logs'
                  ELSE eventName(found.handlers[i]) # sInteractionCreate =>
                          \E j \in DOMAIN listeners' :
                              listeners'[j] = Listener(eventName(found.handlers[i]),
                                                       "handler", found.handlers[i],
                                                       Exports[found.handlers[i]].once,
                                                       connects)
      ]_vars

\* a connect() that registered a command and a handler standing after a throwing class
FailureIsolationWitness ==
    /\ pc = "login"
    /\ found.commands = <<"CustomCommand", "BrokenCommand", "PingCommand">>
    /\ mapGet(commandInstances, sPing) = "PingCommand"
    /\ found.handlers = <<"Event", "BrokenEvent", "MessageCreateEvent">>
    /\ \E j \in DOMAIN listeners :
          listeners[j].cls = "MessageCreateEvent" /\ listeners[j].conn = connects
    /\ LogEntry("error", "Failed to register event handler", "BrokenEvent") \in logs

\* C3: a registerCommands that returned has made at most one commands.set() call,
\* and the batch of that call holds commands of the list of this call only.
BatchHoldsNewListOnly ==
    pc = "registerEvents" =>
        /\ Len(pushCalls) <= 1
        /\ \A k \in DOMAIN pushCalls :
              \A i \in DOMAIN pushCalls[k] :
                  pushCalls[k][i].of \in Range(found.commands)

\* the routings of the last interaction that were chat-input interactions naming a
\* command without an instance in the lookup table
UnknownRoutings ==
    { k \in DOMAIN routed :
        routed[k].type = "chatInput" /\ ~mapHas(commandInstances, routed[k].name) }

\* C4 as stated: every chat-input interaction naming a command without an instance
\* in the lookup table, also when no table exists, gets the unknown-command reply and
\* a warning, and no execute runs.
UnknownAlwaysReplied ==
    \A k \in UnknownRoutings :
        /\ routed[k].call.replies = <<Reply("reply", sUnknownReply)>>
        /\ LogEntry("warn", "Unknown command executed", routed[k].name)
              \in routed[k].call.logs
        /\ routed[k].call.executed = <<>>

\* C4, amended: for a chat-input interaction naming a command without an instance
\* in the lookup table no execute runs; when the table exists the unknown-command
\* reply is sent and a warning logged; when no table exists (nothing was ever
\* registered) an error is logged and no reply is sent.
UnknownRepliedWhenTableExists ==
    \A k \in UnknownRoutings :
        /\ routed[k].call.executed = <<>>
        /\ IF commandInstances.defined
           THEN /\ routed[k].call.replies = <<Reply("reply", sUnknownReply)>>
                /\ LogEntry("warn", "Unknown command executed", routed[k].name)
                      \in routed[k].call.logs
           ELSE /\ routed[k].call.replies = <<>>
                /\ LogEntry("error", "No command instances available for execution", "")
                      \in routed[k].call.logs

\* an interaction naming an unknown command was routed against an existing table
UnknownRepliedWitness ==
    /\ commandInstances.defined
    /\ mapHas(commandInstances, sPing)
    /\ \E k \in UnknownRoutings :
          routed[k].name = sStale /\ routed[k].call.replies # <<>>

\* C5: when the execute of a routed command throws, exactly one response call with
\* the error message is made, editReply on a deferred interaction, reply on one
\* neither deferred nor replied, followUp otherwise; a rejection of that call is
\* logged, and executeSlashCommand does not throw.
ErrorResponseOnce ==
    \A k \in DOMAIN routed :
        (routed[k].type = "chatInput" /\ routed[k].call.execThrew) =>
            /\ Len(routed[k].call.executed) = 1
            /\ Len(routed[k].call.replies) = 1
            /\ routed[k].call.replies[1].content = sErrorReply
            /\ routed[k].call.replies[1].method =
                  (IF routed[k].inp.deferred THEN "editReply"
                   ELSE IF ~routed[k].inp.replied THEN "reply"
                   ELSE "followUp")
            /\ routed[k].inp.channelFails =>
                  LogEntry("error", "Failed to send error response to user", "")
                      \in routed[k].call.logs
            /\ ~routed[k].call.threw

\* a routed command threw on a replied, not deferred interaction and the followUp
\* was rejected
ErrorResponseOnceWitness ==
    \E k \in DOMAIN routed :
        /\ routed[k].call.execThrew
        /\ routed[k].inp.replied /\ ~routed[k].inp.deferred
        /\ routed[k].inp.channelFails
        /\ routed[k].call.replies[1].method = "followUp"

\* C6: every interactionCreate listener of the client is a built-in router, and a
\* registerEventHandlers that returned has logged a warning for every handler of its
\* list whose event name, declared or derived, is interactionCreate.
ReservedNeverSubscribed ==
    /\ \A j \in DOMAIN listeners :
          listeners[j].event = sInteractionCreate => listeners[j].kind = "builtin"
    /\ pc = "login" =>
          \A i \in DOMAIN found.handlers :
              (~HandlerFails(found.handlers[i])
                 /\ eventName(found.handlers[i]) = sInteractionCreate) =>
                  LogEntry("warn", "Skipping user-defined interactionCreate handler",
                           found.handlers[i]) \in logs

\* a connect() that discovered a handler named for the reserved event and one that
\* declares it
ReservedNeverSubscribedWitness ==
    /\ pc = "login"
    /\ {"InteractionCreateEvent", "RouterEvent"} \subseteq Range(found.handlers)
    /\ eventName("InteractionCreateEvent") = sInteractionCreate
    /\ \E j \in DOMAIN listeners : listeners[j].cls = "MessageCreateEvent"

\* C7: no error of a handler's execute or of the built-in interaction handler
\* leaves a listener: every invocation of an emission ends "ok" or "caught", every
\* listener still subscribed to the emitted event was invoked, and the process goes
\* on dispatching.
ListenersNeverPropagate ==
    /\ ~crashed
    /\ ~dispatched.escaped
    /\ \A k \in DOMAIN dispatched.invoked :
          dispatched.invoked[k].outcome \in {"ok", "caught"}
    /\ \A j \in DOMAIN listeners :
          listeners[j].event = dispatched.event =>
              \E k \in DOMAIN dispatched.invoked :
                  /\ dispatched.invoked[k].cls = listeners[j].cls
                  /\ dispatched.invoked[k].conn = listeners[j].conn
    /\ \A k \in DOMAIN routed :
          routed[k].call.threw =>
              LogEntry("error", "Built-in interaction handler failed", routed[k].type)
                  \in logs

\* an emission in which a handler threw and the handler subscribed after it ran
ListenersNeverPropagateWitness ==
    /\ Len(dispatched.invoked) >= 2
    /\ dispatched.invoked[1].outcome = "caught"
    /\ dispatched.invoked[2].outcome = "ok"
    /\ LogEntry("error", "Event handler execution failed", dispatched.invoked[1].cls)
          \in logs

----------------------------------------------------------------------------
(* Properties of discovery, checked under DiscoverySpec *)

\* the entries of the scanned directory that the scan tries to load
Matching(kind, dir) ==
    { f \in Range(dir.entries) : Files[f].isFile /\ filePatternTest(kind, Files[f].name) }

\* C8: in a scan of a readable directory, every matching file whose load fails is
\* logged as a warning, and every valid class exported by every other matching file
\* is returned, wherever the failing file stands in the listing.
DiscoveryIsolation ==
    (scan.kind # "None" /\ scan.dir.readable) =>
        /\ scan.outcome = "returned"
        /\ \A f \in Matching(scan.kind, scan.dir) :
              IF Files[f].loadFails
              THEN LogEntry("warn", "Failed to load file", f) \in scan.logs
              ELSE \A e \in Range(Files[f].exports) :
                      isValid(scan.kind, e) => e \in Range(scan.classes)

\* a scan that met a failing file before a file whose class it returned
DiscoveryIsolationWitness ==
    /\ scan.kind = "Command"
    /\ Len(scan.dir.entries) >= 2
    /\ Files[scan.dir.entries[1]].loadFails
    /\ scan.dir.entries[1] \in Matching("Command", scan.dir)
    /\ scan.dir.entries[2] \in Matching("Command", scan.dir)
    /\ ~Files[scan.dir.entries[2]].loadFails
    /\ scan.classes # <<>>

\* the classes whose prototype objects lie on the prototype chain that starts at the
\* prototype object of class c
RECURSIVE ChainClasses(_)
ChainClasses(c) == IF c = "Object" THEN {} ELSE {c} \cup ChainClasses(Exports[c].parent)

BaseClass(kind) == IF kind = "Command" THEN "BaseSlashCommand" ELSE "BaseEventHandler"

\* C9: a scan for commands (events) returns an export of a loaded file if and only
\* if it is a function with a prototype, its name ends with 'Command' ('Event') and
\* BaseSlashCommand (BaseEventHandler) is on its prototype chain; an export that
\* only matches the name is not returned.
ValidityPredicate ==
    (scan.kind \in {"Command", "Event"} /\ scan.outcome = "returned") =>
        \A f \in Matching(scan.kind, scan.dir) :
            ~Files[f].loadFails =>
                \A e \in Range(Files[f].exports) :
                    e \in Range(scan.classes) <=>
                        /\ Exports[e].kind = "class"
                        /\ endsWith(Exports[e].name, Suffix(scan.kind))
                        /\ BaseClass(scan.kind) \in ChainClasses(e)

\* a scan that returned a class reaching the base through an intermediate class and
\* rejected a class that has only the name
ValidityPredicateWitness ==
    /\ scan.kind = "Command"
    /\ {"fUserInfo", "fLegacy"} \subseteq Range(scan.dir.entries)
    /\ "UserInfoCommand" \in Range(scan.classes)
    /\ "FooCommand" \notin Range(scan.classes)

\* C10: a discover call of any kind returns a list and never throws; on an
\* unreadable directory it logs an error and returns the empty list.
DiscoveryNeverThrows ==
    scan.kind # "None" =>
        /\ scan.outcome = "returned"
        /\ ~scan.dir.readable =>
              /\ scan.classes = <<>>
              /\ LogEntry("error", "Error reading directory", scan.kind) \in scan.logs

\* a scan of an unreadable directory
DiscoveryNeverThrowsWitness ==
    /\ scan.kind = "Job"
    /\ ~scan.dir.readable
    /\ scan.outcome = "returned"

----------------------------------------------------------------------------
(* Properties of createConfig *)

\* the call returned a configuration
Returned == configCall.outcome.kind = "returned"

\* the call ended in a validation failure
Failed == configCall.outcome.kind \in {"exited", "threw"}

\* the field at path of the returned configuration
Value(path) == getIn(configCall.outcome.value, path)

\* the field at path of the overrides argument
Override(path) == getIn(configCall.call.overrides, path)

\* C11: createConfig never returns a configuration with isDevelopment = false
\* and database.synchronize = true.
ProductionSafety ==
    Returned => ~(/\ Value(<<"isDevelopment">>) = Bool(FALSE)
                  /\ Value(<<"database", "synchronize">>) = Bool(TRUE))

\* the fields that an environment variable maps to, and the variable of each
MergedFields ==
    { <<"discord", "token">>, <<"discord", "clientId">>, <<"discord", "guildId">>,
      <<"database", "host">>, <<"database", "port">>, <<"database", "database">>,
      <<"database", "username">>, <<"database", "password">>,
      <<"database", "synchronize">>, <<"database", "logging">> }

EnvOf(path) ==
    CASE path = <<"discord", "token">>        -> "DISCORD_TOKEN"
      [] path = <<"discord", "clientId">>     -> "DISCORD_CLIENT_ID"
      [] path = <<"discord", "guildId">>      -> "DISCORD_GUILD_ID"
      [] path = <<"database", "host">>        -> "DB_HOST"
      [] path = <<"database", "port">>        -> "DB_PORT"
      [] path = <<"database", "database">>    -> "DB_DATABASE"
      [] path = <<"database", "username">>    -> "DB_USERNAME"
      [] path = <<"database", "password">>    -> "DB_PASSWORD"
      [] path = <<"database", "synchronize">> -> "DB_SYNCHRONIZE"
      [] path = <<"database", "logging">>     -> "DB_LOGGING"

\* the environment variable of the call, undefined when unset or empty
Env(name) ==
    IF configCall.call.env[name] = Str(<<>>) THEN JsUndefined ELSE configCall.call.env[name]

\* what the environment gives for a field: the variable's value, read as an
\* integer for the port and compared with 'true' for the two flags
FromEnv(path) ==
    IF Env(EnvOf(path)) = JsUndefined THEN JsUndefined
    ELSE IF path = <<"database", "port">> THEN Num(parseInt(Env("DB_PORT").s))
    ELSE IF path \in {<<"database", "synchronize">>, <<"database", "logging">>}
         THEN Bool(Env(EnvOf(path)) = Str(<<"t","r","u","e">>))
    ELSE Env(EnvOf(path))

\* the value given for a field: the override, else the environment's
Supplied(path) == IF Override(path) # JsUndefined THEN Override(path) ELSE FromEnv(path)

SchemaDefault(path) ==
    CASE path = <<"database", "host">>        -> Str(<<"l","o","c","a","l","h","o","s","t">>)
      [] path = <<"database", "port">>        -> Num(Integer(DefaultPort))
      [] path = <<"database", "synchronize">> -> Bool(FALSE)
      [] path = <<"database", "logging">>     -> Bool(FALSE)
      [] OTHER                                -> JsUndefined

\* a given value as the field's schema returns it
Validated(path, v) ==
    IF path[1] = "discord" THEN DiscordConfigField(path[2], v).value
    ELSE DatabaseConfigField(path[2], v).value

ShouldExit == get(configCall.call.options, "shouldExit")

\* C13: a call that fails validation returns no configuration; it ends the
\* process with status 1 unless the caller set shouldExit to false, and then it
\* rethrows the validation error instead.
FailureExitsUnlessOptedOut ==
    (configCall.outcome.kind # "none" /\ configCall.outcome.issues # {}) =>
        /\ configCall.outcome.value = JsUndefined
        /\ ShouldExit # Bool(FALSE) =>
               configCall.outcome.kind = "exited" /\ configCall.outcome.status = 1
        /\ ShouldExit = Bool(FALSE) => configCall.outcome.kind = "threw"

\* what each overriding path of the model is in absolute form below the
\* working directory cwd, worked out by hand
ResolvedByHand(cwd, p) ==
    CASE p = <<".","/","c","u","s","t","o","m","/","e","n","t","i","t","i","e","s">> -> cwd \o <<"/","c","u","s","t","o","m","/","e","n","t","i","t","i","e","s">>
      [] p = <<".","/","c","u","s","t","o","m","/","c","o","m","m","a","n","d","s">> -> cwd \o <<"/","c","u","s","t","o","m","/","c","o","m","m","a","n","d","s">>
      [] p = <<"c","u","s","t","o","m">>            -> cwd \o <<"/","c","u","s","t","o","m">>
      [] p = <<"j","o","b","s","/">>             -> cwd \o <<"/","j","o","b","s">>
      [] p = <<".",".","/","s","h","a","r","e","d">>         -> IF cwd = <<"/","a","p","p">> THEN <<"/","s","h","a","r","e","d">> ELSE <<"/","s","r","v","/","s","h","a","r","e","d">>
      [] p = <<"/","o","p","t","/","b","o","t","/","e","n","t","i","t","i","e","s">> -> p
      [] p = <<"/","o","p","t","/","s","e","r","v","i","c","e","s">>     -> p

\* C14: the five path fields of a returned configuration are absolute; a field
\* without override is the working directory followed by its default
\* (cwd/src/commands), an overridden one is the override resolved against the
\* working directory.
PathsAbsolute ==
    Returned =>
        \A k \in PathFields :
            /\ Value(<<"paths", k>>).t = "string"
            /\ Head(Value(<<"paths", k>>).s) = "/"
            /\ Value(<<"paths", k>>).s =
                   IF Override(<<"paths", k>>) = JsUndefined
                   THEN configCall.call.cwd \o Tail(PathDefault(k))
                   ELSE ResolvedByHand(configCall.call.cwd, Override(<<"paths", k>>).s)

\* entities overridden with '../shared' in /srv/bot, the four others left alone
PathsAbsoluteWitness ==
    /\ Returned
    /\ configCall.call.cwd = <<"/","s","r","v","/","b","o","t">>
    /\ Override(<<"paths", "entities">>) = Str(<<".",".","/","s","h","a","r","e","d">>)
    /\ Value(<<"paths", "entities">>) = Str(<<"/","s","r","v","/","s","h","a","r","e","d">>)
    /\ Value(<<"paths", "commands">>) = Str(<<"/","s","r","v","/","b","o","t","/","s","r","c","/","c","o","m","m","a","n","d","s">>)

\* the boolean a string spells, for the two strings that spell one
Spelled(v) == Bool(v = Str(<<"t","r","u","e">>))

\* C15: a database.synchronize or database.logging given as the string "true" or
\* "false", by override or by DB_SYNCHRONIZE / DB_LOGGING, is returned as the
\* boolean it spells, and a flag given by neither is returned as false.
BooleanStringsCoerced ==
    Returned =>
        \A path \in {<<"database", "synchronize">>, <<"database", "logging">>} :
            /\ Override(path) \in {Str(<<"t","r","u","e">>), Str(<<"f","a","l","s","e">>)} =>
                   Value(path) = Spelled(Override(path))
            /\ (Override(path) = JsUndefined
                /\ Env(EnvOf(path)) \in {Str(<<"t","r","u","e">>), Str(<<"f","a","l","s","e">>)}) =>
                   Value(path) = Spelled(Env(EnvOf(path)))
            /\ (Override(path) = JsUndefined /\ Env(EnvOf(path)) = JsUndefined) =>
                   Value(path) = Bool(FALSE)

\* the port as the caller gave it: the override, else the DB_PORT variable
PortGiven ==
    IF Override(<<"database", "port">>) # JsUndefined
    THEN Override(<<"database", "port">>) ELSE Env("DB_PORT")

Unsigned(s) == IF s # <<>> /\ Head(s) \in {"-", "+"} THEN Tail(s) ELSE s

\* a number that is an integer, or a string that spells one: digits, with an
\* optional sign and blanks around
SpellsInteger(v) ==
    \/ v.t = "number" /\ ~v.n.nan /\ v.n.frac = <<>>
    \/ /\ v.t = "string"
       /\ Unsigned(trim(v.s)) # <<>>
       /\ \A i \in DOMAIN Unsigned(trim(v.s)) : IsDigit(Unsigned(trim(v.s))[i])

IntegerSpelled(v) ==
    IF v.t = "number" THEN v.n.whole
    ELSE signed(Head(trim(v.s)) = "-", digitsValue(Unsigned(trim(v.s))))

\* C16: a port given as a number or a string is accepted, and returned as the
\* number it spells, when it spells an integer in 1..65535; any other port (out
\* of range, not an integer, not numeric) fails validation, so that a returned
\* port is always an integer in 1..65535.
PortValidated ==
    /\ Returned =>
           /\ Value(<<"database", "port">>).t = "number"
           /\ isInteger(Value(<<"database", "port">>).n)
           /\ Value(<<"database", "port">>).n.whole \in 1..MaxPort
    /\ (configCall.outcome.kind # "none" /\ PortGiven.t \in {"string", "number"}) =>
           IF SpellsInteger(PortGiven) /\ IntegerSpelled(PortGiven) \in 1..MaxPort
           THEN /\ <<"database", "port">> \notin configCall.outcome.issues
                /\ Returned => Value(<<"database", "port">>) =
                                   Num(Integer(IntegerSpelled(PortGiven)))
           ELSE <<"database", "port">> \in configCall.outcome.issues

Credentials ==
    { <<"discord", "token">>, <<"database", "database">>, <<"database", "username">>,
      <<"database", "password">> }

\* C17: the token, database name, username and password of a returned
\* configuration are non-empty strings without surrounding whitespace, the token
\* being the given one trimmed; a credential that is missing, empty or all
\* whitespace makes validation fail.
CredentialsTrimmed ==
    /\ Returned =>
           /\ \A path \in Credentials :
                  /\ Value(path).t = "string"
                  /\ Value(path).s # <<>>
                  /\ Value(path).s = trim(Value(path).s)
           /\ Value(<<"discord", "token">>).s = trim(Supplied(<<"discord", "token">>).s)
    /\ configCall.outcome.kind # "none" =>
           \A path \in Credentials :
               (Supplied(path).t = "undefined"
                \/ (Supplied(path).t = "string" /\ trim(Supplied(path).s) = <<>>)) =>
                   path \in configCall.outcome.issues

\* C25: when the overrides give logger.transport, the transport of the returned
\* configuration is the one given, target and options, and has no option that the
\* override's transport does not give.
TransportOverridden ==
    (Returned /\ Override(<<"logger", "transport">>) # JsUndefined) =>
        /\ Value(<<"logger", "transport">>) = Override(<<"logger", "transport">>)
        /\ keys(Value(<<"logger", "transport", "options">>))
              \subseteq keys(Override(<<"logger", "transport", "options">>))

----------------------------------------------------------------------------
(* Properties of the naming conventions *)

\* s is some string followed by suffix
EndsIn(s, suffix) == \E p \in 0..Len(s) : SubSeq(s, p + 1, Len(s)) = suffix

\* s without the suffix it ends in
Without(s, suffix) == SubSeq(s, 1, Len(s) - Len(suffix))

\* the name or event an instance of the called class declares, NoName when none
Declared == Exports[convCall.cls].explicit

\* the called class has a name from which an identifier can be derived
Derivable(suffix) == EndsIn(convCall.input, suffix) /\ convCall.input # suffix

\* C18: the commandName of an instance is its declared name, else the
\* kebab-case of its class name without 'Command'; its eventName is its declared
\* event, else the camelCase of its class name without 'Event'; and what
\* buildCommand builds carries that commandName and the instance's description.
EffectiveIdentifier ==
    /\ (convCall.fn \in {"commandName", "eventName"} /\ Declared # NoName) =>
           convCall.result = Declared
    /\ (convCall.fn = "commandName" /\ Declared = NoName /\ Derivable(sCommand)) =>
           convCall.result = pascalToKebab(Without(convCall.input, sCommand))
    /\ (convCall.fn = "eventName" /\ Declared = NoName /\ Derivable(sEvent)) =>
           convCall.result = pascalToCamel(Without(convCall.input, sEvent))
    /\ (convCall.fn = "buildCommand" /\ convCall.result # Throws) =>
           /\ convCall.result = IF Declared # NoName THEN Declared
                                ELSE pascalToKebab(Without(convCall.input, sCommand))
           /\ convCall.description = <<"T","e","s","t"," ">> \o convCall.input
    /\ (convCall.fn = "commandName" /\ convCall.cls = "UserInfoCommand") =>
           convCall.result = <<"u","s","e","r","-","i","n","f","o">>
    /\ (convCall.fn = "eventName" /\ convCall.cls = "MessageCreateEvent") =>
           convCall.result = <<"m","e","s","s","a","g","e","C","r","e","a","t","e">>
    /\ (convCall.fn = "eventName" /\ convCall.cls = "RouterEvent") =>
           convCall.result = <<"i","n","t","e","r","a","c","t","i","o","n","C","r","e","a","t","e">>

\* CustomCommand declares the name 'ping': that name is built, not 'custom'
EffectiveIdentifierWitness ==
    /\ convCall.fn = "buildCommand"
    /\ convCall.cls = "CustomCommand"
    /\ convCall.result = <<"p","i","n","g">>
    /\ convCall.description = <<"T","e","s","t"," ","C","u","s","t","o","m","C","o","m","m","a","n","d">>

SuffixConversions ==
    {"commandNameToId", "jobNameToId", "eventNameToDiscordEvent", "entityNameToTableName"}

\* the suffix each conversion requires
RequiredSuffix(fn) ==
    CASE fn = "commandNameToId"         -> <<"C","o","m","m","a","n","d">>
      [] fn = "jobNameToId"             -> <<"J","o","b">>
      [] fn = "eventNameToDiscordEvent" -> <<"E","v","e","n","t">>
      [] fn = "entityNameToTableName"   -> <<"E","n","t","i","t","y">>

\* what each conversion makes of the name without its suffix: kebab-case for
\* commands and jobs, camelCase for events, the name itself for entities
ConvertedRemainder(fn, r) ==
    CASE fn \in {"commandNameToId", "jobNameToId"} -> pascalToKebab(r)
      [] fn = "eventNameToDiscordEvent"            -> pascalToCamel(r)
      [] fn = "entityNameToTableName"              -> r

\* C19: each of the four suffix conversions fails when its input does not end
\* with the required suffix (the empty string included) or is the bare suffix,
\* and otherwise returns the converted remainder.
SuffixConversionsFail ==
    convCall.fn \in SuffixConversions =>
        IF \/ ~EndsIn(convCall.input, RequiredSuffix(convCall.fn))
           \/ convCall.input = RequiredSuffix(convCall.fn)
        THEN convCall.result = Throws
        ELSE /\ convCall.result # Throws
             /\ convCall.result =
                    ConvertedRemainder(convCall.fn,
                                       Without(convCall.input, RequiredSuffix(convCall.fn)))

\* commandNameToId('Command'): the bare suffix fails
SuffixConversionsFailWitness ==
    /\ convCall.fn = "commandNameToId"
    /\ convCall.input = <<"C","o","m","m","a","n","d">>
    /\ convCall.result = Throws

\* a hyphen goes before the character at i: an uppercase letter after a
\* lowercase letter or digit, or an uppercase letter after an uppercase letter
\* and before a lowercase one
HyphenBefore(s, i) ==
    /\ i > 1
    /\ IsUpper(s[i])
    /\ \/ IsLower(s[i - 1])
       \/ IsDigit(s[i - 1])
       \/ IsUpper(s[i - 1]) /\ i < Len(s) /\ IsLower(s[i + 1])

\* the first n characters of s, hyphenated by HyphenBefore and in lowercase
RECURSIVE Hyphenated(_, _)
Hyphenated(s, n) ==
    IF n = 0 THEN <<>>
    ELSE Hyphenated(s, n - 1)
         \o (IF HyphenBefore(s, n) THEN <<"-">> ELSE <<>>)
         \o <<toLowerChar(s[n])>>

\* C20: pascalToKebab puts a hyphen before exactly the uppercase letters that
\* follow a lowercase letter or digit, or follow an uppercase letter and precede
\* a lowercase one, and lowercases every letter: HTMLParser -> html-parser,
\* XMLHttpRequest -> xml-http-request, API2Response -> api2-response,
\* ABc -> a-bc, ABC -> abc.
KebabHyphens ==
    convCall.fn = "pascalToKebab" =>
        /\ convCall.result = Hyphenated(convCall.input, Len(convCall.input))
        /\ convCall.input = <<"H","T","M","L","P","a","r","s","e","r">> => convCall.result = <<"h","t","m","l","-","p","a","r","s","e","r">>
        /\ convCall.input = <<"X","M","L","H","t","t","p","R","e","q","u","e","s","t">> => convCall.result = <<"x","m","l","-","h","t","t","p","-","r","e","q","u","e","s","t">>
        /\ convCall.input = <<"A","P","I","2","R","e","s","p","o","n","s","e">> => convCall.result = <<"a","p","i","2","-","r","e","s","p","o","n","s","e">>
        /\ convCall.input = <<"A","B","c">> => convCall.result = <<"a","-","b","c">>
        /\ convCall.input = <<"A","B","C">> => convCall.result = <<"a","b","c">>

\* pascalToKebab('XMLHttpRequest'): an acronym run and two word boundaries
KebabHyphensWitness ==
    /\ convCall.fn = "pascalToKebab"
    /\ convCall.input = <<"X","M","L","H","t","t","p","R","e","q","u","e","s","t">>
    /\ convCall.result = <<"x","m","l","-","h","t","t","p","-","r","e","q","u","e","s","t">>

----------------------------------------------------------------------------
(* Properties of the lookup table, the order of connect() and repeated     *)
(* connect() calls, checked under Spec                                      *)

\* C26: no step other than the registerCommands step of a connect() changes the
\* lookup table: the routing of an interaction, by however many built-in listeners
\* and whatever the command does, and the emission of an event leave the table with
\* the entries it had.
TableWrittenAtRegistrationOnly ==
    [][ pc # "registerCommands" => commandInstances' = commandInstances ]_vars

\* an interaction was routed to a command of a table of two, and its execute threw
TableWrittenAtRegistrationOnlyWitness ==
    /\ Len(commandInstances.entries) >= 2
    /\ \E k \in DOMAIN routed :
          /\ routed[k].type = "chatInput"
          /\ mapHas(commandInstances, routed[k].name)
          /\ routed[k].call.executed = <<mapGet(commandInstances, routed[k].name)>>
          /\ routed[k].call.execThrew

\* the registerCommands step failed in the push to the external client
PushFailed ==
    LogEntry("error", "Failed to register commands with Discord API", "") \in logs

\* C27: a connect() first subscribes the client listeners, the built-in
\* interactionCreate router among them, and nothing else; it reaches the
\* registration steps from discovery only, the login from a registration that
\* returned only, and logs in at the login step only; a failed command push or login
\* ends the call with the error logged and rethrown, no listener subscribed and no
\* login made after it.
ConnectOrder ==
    [][ /\ (pc = "idle" /\ pc' # "idle") =>
              /\ pc' = "discover"
              /\ listeners' = listeners \o setupClientErrorHandlers(connects')
              /\ listeners'[Len(listeners) + 1] =
                    Listener(sInteractionCreate, "builtin", "BuiltinInteractionHandler",
                             FALSE, connects')
              /\ commandInstances' = commandInstances
              /\ loggedIn' = loggedIn
        /\ pc' = "registerCommands" => pc = "discover"
        /\ pc' = "registerEvents" => pc = "registerCommands"
        /\ pc' = "login" => pc = "registerEvents"
        /\ loggedIn' # loggedIn => pc = "login"
        /\ (pc = "registerCommands" /\ PushFailed') =>
              /\ pc' = "idle"
              /\ connectResult' = "threw"
              /\ LogEntry("error", "Failed to connect to Discord", "") \in logs'
              /\ listeners' = listeners
              /\ loggedIn' = loggedIn
        /\ pc = "login" =>
              \/ pc' = "idle" /\ connectResult' = "ok" /\ loggedIn'
              \/ /\ pc' = "idle"
                 /\ connectResult' = "threw"
                 /\ LogEntry("error", "Failed to connect to Discord", "") \in logs'
                 /\ loggedIn' = loggedIn
                 /\ listeners' = listeners
      ]_vars

\* a connect() ended by a failed push of two commands: no handler of the events
\* directory was subscribed, no login made
ConnectOrderWitness ==
    /\ pc = "idle"
    /\ connectResult = "threw"
    /\ PushFailed
    /\ Len(pushCalls) = 1
    /\ Len(commandInstances.entries) = 2
    /\ ~loggedIn
    /\ \A j \in DOMAIN listeners : listeners[j].kind # "handler"

\* C29: the lookup table never holds two entries under one name; after a
\* registerCommands that returned, every name a class of the list registers under
\* holds the instance of the last such class of the list, and every batch pushed
\* holds exactly one wire representation per name of the table, that of the
\* instance stored under the name.
OneInstancePerName ==
    /\ \A i, j \in DOMAIN commandInstances.entries :
          commandInstances.entries[i].key = commandInstances.entries[j].key => i = j
    /\ pc = "registerEvents" =>
          /\ \A i \in DOMAIN found.commands :
                ~CommandFails(found.commands[i]) =>
                    /\ mapHas(commandInstances, commandName(found.commands[i]))
                    /\ mapGet(commandInstances, commandName(found.commands[i]))
                          = LastNamed(found.commands, commandName(found.commands[i]))
          /\ \A k \in DOMAIN pushCalls :
                /\ Len(pushCalls[k]) = Cardinality(TableNames(commandInstances))
                /\ \A name \in TableNames(commandInstances) :
                      /\ Cardinality({ i \in DOMAIN pushCalls[k] :
                                         pushCalls[k][i].name = name }) = 1
                      /\ \E i \in DOMAIN pushCalls[k] :
                            /\ pushCalls[k][i].name = name
                            /\ pushCalls[k][i].of = mapGet(commandInstances, name)

\* a registerCommands of a list with two classes named ping pushed one ping, that of
\* the later class
OneInstancePerNameWitness ==
    /\ pc = "registerEvents"
    /\ found.commands = <<"CustomCommand", "BrokenCommand", "PingCommand">>
    /\ commandName("CustomCommand") = commandName("PingCommand")
    /\ Len(pushCalls) = 1
    /\ Len(pushCalls[1]) = 1
    /\ pushCalls[1][1].of = "PingCommand"

\* C30: a registerCommands step that leaves the lookup table absent or empty makes
\* no commands.set() call and returns: connect() goes on to registerEventHandlers,
\* no error is raised.
NoPushWithoutCommands ==
    [][ (pc = "registerCommands"
           /\ (~commandInstances'.defined \/ Len(commandInstances'.entries) = 0)) =>
            /\ pushCalls' = <<>>
            /\ pc' = "registerEvents"
            /\ connectResult' = connectResult
            /\ LogEntry("error", "Failed to connect to Discord", "") \notin logs'
      ]_vars

\* a registerCommands whose three classes all failed returned without a push
NoPushWithoutCommandsWitness ==
    /\ pc = "registerEvents"
    /\ Len(found.commands) = 3
    /\ \A i \in DOMAIN found.commands : CommandFails(found.commands[i])
    /\ ~commandInstances.defined
    /\ pushCalls = <<>>
    /\ LogEntry("debug", "No commands to register with Discord API", "") \in logs

\* the listeners of the last interaction that ran a command's execute
Executing == { k \in DOMAIN routed : routed[k].call.executed # <<>> }

\* C28: whatever the number of connect() calls made on the service, an inbound
\* chat-input interaction naming a registered command runs that command's execute
\* exactly once, and an emission runs the execute of each handler class subscribed
\* to the event exactly once.
ExecutesOncePerInbound ==
    /\ \A k \in DOMAIN routed :
          (routed[k].type = "chatInput" /\ mapHas(commandInstances, routed[k].name)) =>
              /\ Cardinality(Executing) = 1
              /\ \A j \in Executing : Len(routed[j].call.executed) = 1
    /\ \A k \in DOMAIN dispatched.invoked :
          dispatched.methods[k] # <<>> =>
              Cardinality({ j \in DOMAIN dispatched.invoked :
                              /\ dispatched.methods[j] # <<>>
                              /\ dispatched.invoked[j].cls = dispatched.invoked[k].cls }) = 1

\* the identity of a handler instance: its class and the connect() call that made it
HandlerId(l) == [cls |-> l.cls, conn |-> l.conn]

\* the executions of a handler instance in an emission
Executions(d, id) ==
    { k \in DOMAIN d.invoked :
        /\ d.invoked[k].cls = id.cls
        /\ d.invoked[k].conn = id.conn
        /\ d.methods[k] = <<"execute">> }

\* C22: an emission runs the execute of every handler instance subscribed to the
\* event exactly once; an instance with once = true had not run before and is
\* unsubscribed by the emission, so that it runs in no later one, and an instance
\* with once = false stays subscribed for the next emission.
OnceSelectsSingleShot ==
    [][ \A e \in EmittedEvents :
          (pc = "idle" /\ pc' = "idle" /\ dispatched'.event = e) =>
              /\ \A j \in DOMAIN listeners :
                    (listeners[j].kind = "handler" /\ listeners[j].event = e) =>
                        /\ Cardinality(Executions(dispatched', HandlerId(listeners[j]))) = 1
                        /\ IF Exports[listeners[j].cls].once
                           THEN /\ HandlerId(listeners[j]) \notin fired
                                /\ \A i \in DOMAIN listeners' :
                                      HandlerId(listeners'[i]) # HandlerId(listeners[j])
                           ELSE \E i \in DOMAIN listeners' : listeners'[i] = listeners[j]
              /\ \A k \in DOMAIN dispatched'.invoked :
                    dispatched'.methods[k] # <<>> =>
                        \E j \in DOMAIN listeners :
                            /\ listeners[j].event = e
                            /\ HandlerId(listeners[j]) = HandlerId(dispatched'.invoked[k])
      ]_vars

\* ready was emitted again after the ReadyEvent instance of this connect() had run:
\* no handler ran for it, while the MessageCreateEvent instance is still subscribed
OnceSelectsSingleShotWitness ==
    /\ [cls |-> "ReadyEvent", conn |-> connects] \in fired
    /\ Exports["ReadyEvent"].once
    /\ ~Exports["MessageCreateEvent"].once
    /\ dispatched.event = sReady
    /\ \A k \in DOMAIN dispatched.invoked : dispatched.methods[k] = <<>>
    /\ \E j \in DOMAIN listeners :
          listeners[j].cls = "MessageCreateEvent" /\ listeners[j].conn = connects

\* the classes of the population that define beforeExecute, afterExecute and onError
DefinesHooks == {"PingCommand", "MessageCreateEvent"}

\* the calls the hooks' documentation describes around an execute
HookedCalls(threw) ==
    IF threw THEN <<"beforeExecute", "execute", "onError">>
    ELSE <<"beforeExecute", "execute", "afterExecute">>

\* C23: when the orchestrator executes a command or an event handler that defines
\* the hooks, it calls beforeExecute, then execute, then afterExecute when execute
\* returned and onError when execute threw.
HooksRunAroundExecute ==
    /\ \A k \in DOMAIN routed :
          (routed[k].call.executed # <<>>
             /\ routed[k].call.executed[1] \in DefinesHooks) =>
              routed[k].methods = HookedCalls(routed[k].call.execThrew)
    /\ \A k \in DOMAIN dispatched.invoked :
          (dispatched.methods[k] # <<>> /\ dispatched.invoked[k].cls \in DefinesHooks) =>
              dispatched.methods[k] = HookedCalls(dispatched.invoked[k].outcome = "caught")

----------------------------------------------------------------------------
(* Properties of the LoggerService, checked under LoggerSpec *)

\* C21: loggerCount is the number of distinct names asked for since the last
\* clearLoggers, 0 right after a clearLoggers; of the loggers handed out since
\* the last clearLoggers, two are the same object exactly when they were asked for
\* under the same name.
LoggersCached ==
    /\ loggerCount(loggerService) = Cardinality(loggerCalls.requested)
    /\ loggerCalls.last = "clearLoggers" => loggerCount(loggerService) = 0
    /\ \A p, q \in loggerCalls.given : (p[1] = q[1]) <=> (p[2].id = q[2].id)
    /\ loggerCalls.last = "getLogger" =>
          \E p \in loggerCalls.given : p[2] = loggerCalls.returned

\* after a clearLoggers two names were asked for, and a getLogger call returned the
\* logger cached for the first of them
LoggersCachedWitness ==
    /\ Cardinality(loggerCalls.requested) = 2
    /\ loggerCount(loggerService) = 2
    /\ loggerService.children = MaxChildren
    /\ loggerCalls.last = "getLogger"
    /\ loggerCalls.returned.id = MaxChildren - 1

----------------------------------------------------------------------------
(* Properties of deepMerge, checked under DeepMergeSpec *)

\* an object that is neither null nor an array
PlainObject(v) == v.t = "object"

\* a value with a dangerous key among its keys, at any depth
RECURSIVE HasDangerousKey(_)
HasDangerousKey(v) ==
    /\ v.t = "object"
    /\ \/ keys(v) \cap DANGEROUS_KEYS # {}
       \/ \E k \in keys(v) : HasDangerousKey(get(v, k))

\* result holds, for every key, what the claim says of a merge of source into target
RECURSIVE MergedAsClaimed(_, _, _)
MergedAsClaimed(target, source, result) ==
    \A k \in keys(target) \cup keys(source) \cup keys(result) :
        IF k \in keys(source) \cap DANGEROUS_KEYS
        THEN get(result, k) = get(target, k)
        ELSE IF PlainObject(get(target, k)) /\ PlainObject(get(source, k))
        THEN /\ PlainObject(get(result, k))
             /\ MergedAsClaimed(get(target, k), get(source, k), get(result, k))
        ELSE IF k \in keys(source) /\ get(source, k) # JsUndefined
        THEN get(result, k) = get(source, k)
        ELSE get(result, k) = get(target, k)

\* C24: deepMerge returns, for every key, the recursive merge of two plain objects,
\* else the source's value when it is not undefined, else the target's value, and
\* copies no dangerous key of the source: a target free of them at every depth
\* gives a result free of them at every depth.
DeepMergeAsClaimed ==
    mergeCall.done =>
        /\ MergedAsClaimed(mergeCall.target, mergeCall.source, mergeCall.result)
        /\ ~HasDangerousKey(mergeCall.target) => ~HasDangerousKey(mergeCall.result)

====
